---- MODULE Spec2Model ----
(***************************************************************************)
(* Caption acquisition and timing reconstruction of the karaoke scripts:  *)
(*   scripts/convert_srv3_to_word_srt.py  srv3 XML -> word cues -> SRT     *)
(*   scripts/fetch_srv3_words.py          srv3 XML -> (start_ms, word)     *)
(*   scripts/fetch_srv3_sentences.py      srv3 XML -> (start_ms, sentence) *)
(*   scripts/fetch_lyrics.py              track selection, fetch, parse    *)
(*                                                                         *)
(* Representation.                                                         *)
(*  - A string is a sequence of characters, so that strip(), startswith()  *)
(*    and equality with the marker are computed, not assumed.  The Thai    *)
(*    letters of the marker are written by their code points.              *)
(*  - An optional attribute (p.get("t"), p.get("d"), s.get("t")) is the    *)
(*    empty sequence when absent and <<v>> when present; attributes are    *)
(*    well-formed integers (int() does not raise).                         *)
(*  - ElementTree gives None for an element without text; the code reads   *)
(*    every text as (x.text or ""), so absent text is the empty string.    *)
(*  - A cue is the tuple <<start_ms, end_ms, text>> of the code.           *)
(***************************************************************************)
EXTENDS Integers, Sequences, FiniteSets, TLC

VARIABLES
    prog,      \* which script runs: "convert", "words", "sentences", "lyrics", "run"
    pc,        \* position inside that script's main()
    payload,   \* the srv3 document: the sequence of <p> elements, in document order
    appended,  \* convert: per <p>, the cues its loop iteration appended (before the sort)
    cues,      \* convert: the list returned by parse_srv3_to_word_cues
    srt,       \* convert: the blocks written by write_srt, in file order
    tokens,    \* words / sentences / lyrics(words): the parsed (start_ms, text) list
    sents,     \* lyrics: the parsed sentence list
    lines,     \* words / sentences / lyrics(words file): the lines written
    sentLines, \* lyrics: the lines written to the sentence file
    tracks,    \* lyrics: the captionTracks list returned by the track listing
    lang,      \* the target language given to pick_track
    track,     \* the result of pick_track: None or <<track>>
    requests,  \* lyrics: the URLs requested by download_caption, in order
    fetched,   \* lyrics: None or <<[fmt, content]>>, the result of download_caption
    rc,        \* "none" while main runs, else its return or the exception raised
    events,    \* the json3 document: the sequence of events, in document order
    attempts,  \* lyrics: per format tried by download_caption, what was asked and answered
    files,     \* the output files written so far
    tmp,       \* words / sentences: the temporary directory and the srv3 file in it
    arg,       \* the argument of ms_to_srt_timestamp
    stamp,     \* the text returned by ms_to_srt_timestamp
    original_url, \* run.py: the URL returned by resolve_url, None before
    procs,     \* run.py: the child processes started so far, with their return codes
    exit_status \* run.py: None while it runs, else the exit status of its process

xmlVars == <<payload, appended, cues, srt, tokens, sents, lines, sentLines>>
trackVars == <<tracks, lang, track, requests, fetched, rc>>
moreVars == <<events, attempts, files, tmp, arg, stamp>>
pipelineVars == <<original_url, procs, exit_status>>
vars == <<prog, pc, xmlVars, trackVars, moreVars, pipelineVars>>

(***************************************************************************)
(* Bounds of the model.                                                    *)
(***************************************************************************)
MaxParas == 2   \* <p> elements per document (multi-paragraph specification)
MaxSegs == 3    \* <s> children of the paragraph (single-paragraph specification)
MaxTracks == 2  \* entries of the captionTracks list
MaxEvents == 2  \* events per json3 document
MaxDelta == 12  \* millisecond arguments tried from each base value on

(***************************************************************************)
(* Program constants.                                                      *)
(***************************************************************************)
FallbackSpanMs == 250     \* word_start_ms + 250
MarkerMinSpanMs == 500    \* word_start_ms + 500

None == <<>>
Some(v) == <<v>>
IsNone(o) == o = <<>>
Val(o) == o[1]

\* "[" U+0E40 U+0E1E U+0E25 U+0E07 "]"
Marker == <<"[", "U0E40", "U0E1E", "U0E25", "U0E07", "]">>

\* the characters for which str.isspace() holds: U+0009..U+000D,
\* U+001C..U+0020, U+0085, U+00A0, U+1680, U+2000..U+200A, U+2028, U+2029,
\* U+202F, U+205F, U+3000.  A character without an escape is named by its
\* code point.
Whitespace ==
    {" ", "\t", "\n", "\r", "\f", "U000B", "U001C", "U001D", "U001E", "U001F",
     "U0085", "U00A0", "U1680",
     "U2000", "U2001", "U2002", "U2003", "U2004", "U2005", "U2006", "U2007",
     "U2008", "U2009", "U200A", "U2028", "U2029", "U202F", "U205F", "U3000"}

\* the bytes that bytes.lstrip() drops: ASCII whitespace
BytesWhitespace == {" ", "\t", "\n", "\r", "\f", "U000B"}

\* the whitespace a JSON text may have around its value
JsonWhitespace == {" ", "\t", "\n", "\r"}

\* the whitespace an XML text may have around its root element
XmlWhitespace == {" ", "\t", "\n", "\r"}

\* the lone surrogates U+D800..U+DFFF, which the utf-8 codec refuses to encode
HexDigits == {"0", "1", "2", "3", "4", "5", "6", "7", "8", "9", "A", "B", "C", "D", "E", "F"}
Surrogates ==
    {"UD" \o a \o b \o c : a \in {"8", "9", "A", "B", "C", "D", "E", "F"},
                            b \in HexDigits, c \in HexDigits}

(***************************************************************************)
(* str.strip(): drop leading and trailing whitespace characters.           *)
(***************************************************************************)
RECURSIVE LStripChars(_, _)
LStripChars(s, chars) ==
    IF s = <<>> THEN <<>>
    ELSE IF Head(s) \in chars THEN LStripChars(Tail(s), chars)
    ELSE s

RECURSIVE RStripChars(_, _)
RStripChars(s, chars) ==
    IF s = <<>> THEN <<>>
    ELSE IF s[Len(s)] \in chars THEN RStripChars(SubSeq(s, 1, Len(s) - 1), chars)
    ELSE s

LStrip(s) == LStripChars(s, Whitespace)

RStrip(s) == RStripChars(s, Whitespace)

Strip(s) == RStrip(LStrip(s))

\* r.content.lstrip() on bytes
bytes_lstrip(s) == LStripChars(s, BytesWhitespace)

Max(a, b) == IF a >= b THEN a ELSE b

(***************************************************************************)
(* list.sort(key=..., reverse=...) and sorted(): the keys are tuples of    *)
(* numbers compared lexicographically, and the sort is stable: elements    *)
(* with equal keys keep their relative order, also under reverse=True.     *)
(* The sort works on <<key, item>> pairs.                                  *)
(***************************************************************************)
\* tuple comparison a <= b of two keys of the same length
RECURSIVE TupleLeq(_, _)
TupleLeq(a, b) ==
    IF a = <<>> THEN TRUE
    ELSE IF Head(a) # Head(b) THEN Head(a) < Head(b)
    ELSE TupleLeq(Tail(a), Tail(b))

\* may x stay behind y in the sorted order
KeepsOrder(y, x, reverse) ==
    IF reverse THEN TupleLeq(x[1], y[1]) ELSE TupleLeq(y[1], x[1])

RECURSIVE InsertStable(_, _, _)
InsertStable(x, s, reverse) ==
    \* x arrives after every element of s, so it goes behind the equal keys
    IF s = <<>> THEN <<x>>
    ELSE IF KeepsOrder(s[Len(s)], x, reverse) THEN Append(s, x)
    ELSE Append(InsertStable(x, SubSeq(s, 1, Len(s) - 1), reverse), s[Len(s)])

RECURSIVE SortStable(_, _)
SortStable(s, reverse) ==
    IF s = <<>> THEN <<>>
    ELSE InsertStable(s[Len(s)], SortStable(SubSeq(s, 1, Len(s) - 1), reverse), reverse)

\* the items of a sorted sequence of <<key, item>> pairs
Items(s) == [i \in 1..Len(s) |-> s[i][2]]

RECURSIVE Concat(_)
Concat(ss) == IF ss = <<>> THEN <<>> ELSE Head(ss) \o Concat(Tail(ss))

(***************************************************************************)
(* scripts/convert_srv3_to_word_srt.py                                     *)
(***************************************************************************)

Digits == <<"0", "1", "2", "3", "4", "5", "6", "7", "8", "9">>

\* the decimal digits of a natural number, as f"{n:d}" writes them
RECURSIVE DecimalDigits(_)
DecimalDigits(n) ==
    IF n < 10 THEN <<Digits[n + 1]>>
    ELSE Append(DecimalDigits(n \div 10), Digits[(n % 10) + 1])

\* the digits without padding
Unpadded(n, width) == DecimalDigits(n)

\* f"{n:0<width>d}" for n >= 0: zeros in front up to the width, never cut
ZeroPadded(n, width) ==
    LET ds == DecimalDigits(n)
    IN  [i \in 1..Max(0, width - Len(ds)) |-> "0"] \o ds

\* ms_to_srt_timestamp: the text HH:MM:SS,mmm
ms_to_srt_timestamp(ms) ==
    LET total_seconds == ms \div 1000
        milliseconds == ms % 1000
        hours == total_seconds \div 3600
        minutes == (total_seconds % 3600) \div 60
        seconds == total_seconds % 60
    IN  ZeroPadded(hours, 2) \o <<":">> \o ZeroPadded(minutes, 2) \o <<":">>
        \o ZeroPadded(seconds, 2) \o <<",">> \o ZeroPadded(milliseconds, 3)

\* enumerate(cues, start=1)
Enumerate1(s) == [i \in 1..Len(s) |-> <<i, s[i]>>]

\* the loop without its skip test
SkipsNothing(start_ms, end_ms) == FALSE

\* the skip test with < in place of <=
SkipsCueStrict(start_ms, end_ms) == end_ms < start_ms

\* the loop's "if end_ms <= start_ms: continue"
SkipsCue(start_ms, end_ms) == end_ms <= start_ms

\* write_srt: the blocks written to the file, in order.  A block is its number
\* line, its two rendered timestamps and its text.
write_srt(cs) ==
    LET kept == SelectSeq(Enumerate1(cs), LAMBDA e : ~SkipsCue(e[2][1], e[2][2]))
    IN  [k \in 1..Len(kept) |->
            [idx   |-> kept[k][1],
             start |-> ms_to_srt_timestamp(kept[k][2][1]),
             end   |-> ms_to_srt_timestamp(kept[k][2][2]),
             text  |-> kept[k][2][3]]]

\* the segments kept by "if not word_text: continue", as <<offset, word_text>>
KeptSegments(segs) ==
    LET stripped == [i \in 1..Len(segs) |->
                        <<IF IsNone(segs[i].t) THEN 0 ELSE Val(segs[i].t),
                          Strip(segs[i].text)>>]
    IN  SelectSeq(stripped, LAMBDA e : e[2] # <<>>)

\* the next segment's offset taken as an absolute time
ComputedEndAbsoluteNext(para_start, para_dur, offsets, i) ==
    IF i < Len(offsets)
    THEN offsets[i + 1]
    ELSE IF ~IsNone(para_dur)
         THEN para_start + Val(para_dur)
         ELSE (para_start + offsets[i]) + FallbackSpanMs

\* the paragraph duration counted from the last word's start
ComputedEndDurFromWord(para_start, para_dur, offsets, i) ==
    IF i < Len(offsets)
    THEN para_start + offsets[i + 1]
    ELSE IF ~IsNone(para_dur)
         THEN (para_start + offsets[i]) + Val(para_dur)
         ELSE (para_start + offsets[i]) + FallbackSpanMs

\* every word given the end of the last one, the next word's start unused
ComputedEndOfParagraph(para_start, para_dur, offsets, i) ==
    IF ~IsNone(para_dur)
    THEN para_start + Val(para_dur)
    ELSE (para_start + offsets[i]) + FallbackSpanMs

\* the end of word i (counted from 1) before the marker rule: the next word's
\* start, else the paragraph's end, else a 250 ms span
ComputedEnd(para_start, para_dur, offsets, i) ==
    IF i < Len(offsets)
    THEN para_start + offsets[i + 1]
    ELSE IF ~IsNone(para_dur)
         THEN para_start + Val(para_dur)
         ELSE (para_start + offsets[i]) + FallbackSpanMs

\* the marker rule left out
NoWiden(word_text, word_start_ms, word_end_ms) == word_end_ms

\* if word_text == "[...]": word_end_ms = max(word_end_ms, word_start_ms + 500)
WidenMarker(word_text, word_start_ms, word_end_ms) ==
    IF word_text = Marker
    THEN Max(word_end_ms, word_start_ms + MarkerMinSpanMs)
    ELSE word_end_ms

\* a paragraph without duration given the 250 ms span instead of being skipped
SoloCuesWithFallback(para_start, para_dur, ptext) ==
    LET text == Strip(ptext)
    IN  IF text = <<>> THEN <<>>
        ELSE IF IsNone(para_dur)
             THEN << <<para_start, para_start + FallbackSpanMs, text>> >>
             ELSE << <<para_start, para_start + Val(para_dur), text>> >>

\* a paragraph without <s> children: its own text, if it has a duration
SoloCues(para_start, para_dur, ptext) ==
    LET text == Strip(ptext)
    IN  IF text = <<>> THEN <<>>
        ELSE IF IsNone(para_dur) THEN <<>>
        ELSE << <<para_start, para_start + Val(para_dur), text>> >>

\* one iteration of "for p in root.findall('.//p')": the cues it appends
ParagraphCues(p) ==
    IF IsNone(p.t) THEN <<>>
    ELSE LET para_start == Val(p.t)
             para_dur == p.d
         IN  IF p.segs = <<>> THEN SoloCues(para_start, para_dur, p.text)
             ELSE LET kept == KeptSegments(p.segs)
                      offsets == [i \in 1..Len(kept) |-> kept[i][1]]
                      texts == [i \in 1..Len(kept) |-> kept[i][2]]
                  IN  [i \in 1..Len(texts) |->
                          LET word_start_ms == para_start + offsets[i]
                              word_end_ms == ComputedEnd(para_start, para_dur, offsets, i)
                          IN  <<word_start_ms,
                                WidenMarker(texts[i], word_start_ms, word_end_ms),
                                texts[i]>>]

\* key=lambda c: (c[0], c[1])
CueKey(c) == <<c[1], c[2]>>

\* cues.sort(key=lambda c: (c[0], c[1]))
SortCues(cs) == Items(SortStable([i \in 1..Len(cs) |-> <<CueKey(cs[i]), cs[i]>>], FALSE))

AppendedCues(doc) == [j \in 1..Len(doc) |-> ParagraphCues(doc[j])]

parse_srv3_to_word_cues(doc) == SortCues(Concat(AppendedCues(doc)))

(***************************************************************************)
(* Seconds as written by the tab-separated writers.  start_ms / 1000.0 is  *)
(* kept as <<whole seconds, thousandths>>; f"{seconds:.3f}" prints exactly *)
(* these two numbers for a non-negative integer number of milliseconds,    *)
(* and two such values compare as the pairs do.                            *)
(***************************************************************************)
SecondsOf(ms) == <<ms \div 1000, ms % 1000>>
Format3f(sec) == [whole |-> sec[1], frac |-> sec[2]]

(***************************************************************************)
(* scripts/fetch_srv3_words.py                                             *)
(***************************************************************************)
WordsOfParagraph(p) ==
    IF IsNone(p.t) THEN <<>>
    ELSE LET kept == KeptSegments(p.segs)
         IN  [i \in 1..Len(kept) |-> <<Val(p.t) + kept[i][1], kept[i][2]>>]

\* key=lambda t: t[0]
StartKey(t) == <<t[1]>>

\* result.sort(key=lambda t: t[0])
SortByStart(ts) == Items(SortStable([i \in 1..Len(ts) |-> <<StartKey(ts[i]), ts[i]>>], FALSE))

parse_srv3_words(doc) ==
    SortByStart(Concat([j \in 1..Len(doc) |-> WordsOfParagraph(doc[j])]))

write_wordlist(words) ==
    [i \in 1..Len(words) |->
        [ts |-> Format3f(SecondsOf(words[i][1])), text |-> words[i][2]]]

(***************************************************************************)
(* scripts/fetch_srv3_sentences.py                                         *)
(***************************************************************************)
\* "".join(parts) of the stripped, non-empty <s> texts
JoinKept(segs) ==
    LET kept == KeptSegments(segs)
    IN  Concat([i \in 1..Len(kept) |-> kept[i][2]])

SentenceOfParagraph(p) ==
    IF IsNone(p.t) THEN <<>>
    ELSE LET text == IF p.segs # <<>> THEN Strip(JoinKept(p.segs)) ELSE Strip(p.text)
         IN  IF text = <<>> THEN <<>> ELSE << <<Val(p.t), text>> >>

parse_srv3_sentences(doc) ==
    SortByStart(Concat([j \in 1..Len(doc) |-> SentenceOfParagraph(doc[j])]))

write_sentences_seconds(sentences) ==
    [i \in 1..Len(sentences) |->
        [ts |-> Format3f(SecondsOf(sentences[i][1])), text |-> sentences[i][2]]]

(***************************************************************************)
(* scripts/fetch_lyrics.py: the srv3 parsers and write_pairs               *)
(***************************************************************************)
StartsWith(s, c) == s # <<>> /\ s[1] = c
EndsWith(s, c) == s # <<>> /\ s[Len(s)] = c

\* txt.startswith("[") and txt.endswith("]")
Bracketed(txt) == StartsWith(txt, "[") /\ EndsWith(txt, "]")

LyricsSentenceOfParagraph(p) ==
    IF IsNone(p.t) THEN <<>>
    ELSE LET text == Strip(Concat([i \in 1..Len(p.segs) |-> Strip(p.segs[i].text)]))
         IN  IF text = <<>> THEN <<>> ELSE << <<SecondsOf(Val(p.t)), text>> >>

lyrics_parse_srv3_sentences(doc) ==
    Concat([j \in 1..Len(doc) |-> LyricsSentenceOfParagraph(doc[j])])

LyricsWordsOfParagraph(p) ==
    IF IsNone(p.t) THEN <<>>
    ELSE LET kept == SelectSeq(KeptSegments(p.segs), LAMBDA e : ~Bracketed(e[2]))
         IN  [i \in 1..Len(kept) |-> <<SecondsOf(Val(p.t) + kept[i][1]), kept[i][2]>>]

lyrics_parse_srv3_words(doc) ==
    Concat([j \in 1..Len(doc) |-> LyricsWordsOfParagraph(doc[j])])

\* key=lambda t: t[0] on (seconds, text) pairs
PairKey(t) == t[1]

\* write_pairs without its sort
UnsortedPairs(pairs) == pairs

\* pairs.sort(key=lambda t: t[0])
SortPairs(pairs) ==
    Items(SortStable([i \in 1..Len(pairs) |-> <<PairKey(pairs[i]), pairs[i]>>], FALSE))

\* a text the utf-8 codec of the output file can encode
Encodable(text) == \A i \in 1..Len(text) : text[i] \notin Surrogates

\* the pairs written before f.write raises: all of them, or those before
\* the first text that cannot be encoded
RECURSIVE EncodablePrefix(_)
EncodablePrefix(pairs) ==
    IF pairs = <<>> THEN <<>>
    ELSE IF ~Encodable(Head(pairs)[2]) THEN <<>>
    ELSE <<Head(pairs)>> \o EncodablePrefix(Tail(pairs))

\* write_pairs raises UnicodeEncodeError at the first text with a lone surrogate
write_pairs_raises(pairs) == \E i \in 1..Len(pairs) : ~Encodable(pairs[i][2])

\* write_pairs: sorts the list in place, then writes one line per pair; the
\* result is what the file holds when the call ends
write_pairs(pairs) ==
    LET sorted == EncodablePrefix(SortPairs(pairs))
    IN  [i \in 1..Len(sorted) |-> [ts |-> Format3f(sorted[i][1]), text |-> sorted[i][2]]]

(***************************************************************************)
(* scripts/fetch_lyrics.py: decoding the payload, the json3 parsers        *)
(* The payload is the sequence of chunks that download_caption returned.   *)
(* In a JSON text the chunk "events" stands for the member "events": [...] *)
(* and in an XML text the chunk "<p " for the <p> elements; the events and *)
(* the paragraphs themselves are the documents the caption server holds.   *)
(* The chunk "error" is the member "error": 1 and NoEventsError the member *)
(* "error": "no events".                                                   *)
(***************************************************************************)
\* an error member whose message holds the word events
NoEventsError == "\"error\": \"no events\""

\* a decoder that never raises: every text counts as the document
json_loads_lenient(data, evs) == Some([events |-> Some(evs)])

\* json.loads(data.decode("utf-8")): None when it raises JSONDecodeError, else
\* the decoded object; JSON whitespace may stand between any two tokens and
\* around the one value, and nothing else may (a byte order mark is an error)
json_loads(data, evs) ==
    LET IsToken(c) == c \notin JsonWhitespace
        text == SelectSeq(data, IsToken)
        members == SubSeq(text, 2, Len(text) - 1)
    IN  IF /\ Len(text) >= 2
           /\ text[1] = "{" /\ text[Len(text)] = "}"
           /\ members \in {<<>>, <<"events">>, <<"error">>, <<NoEventsError>>}
        THEN Some([events |-> IF members = <<"events">> THEN Some(evs) ELSE None])
        ELSE None

\* characters that expat refuses wherever they stand: the C0 controls other
\* than tab, newline and carriage return, a bare & or <, U+FFFE, U+FFFF and
\* the surrogates (which have no UTF-8 form)
XmlInvalidChars ==
    {"U0000", "U0001", "U0002", "U0003", "U0004", "U0005", "U0006", "U0007",
     "U0008", "U000B", "\f", "U000E", "U000F", "U0010", "U0011", "U0012",
     "U0013", "U0014", "U0015", "U0016", "U0017", "U0018", "U0019", "U001A",
     "U001B", "U001C", "U001D", "U001E", "U001F", "&", "<", "UFFFE", "UFFFF"}
    \cup Surrogates

\* expat reading the chunks left to right: depth counts the open elements,
\* roots the top-level elements met, found holds the <p> elements met below
\* the root.  Outside the root only XML whitespace may stand; inside an
\* element every other chunk is character data.  The chunk "<p " is the
\* whole <p> elements of doc: below the root they are found, at the top
\* level they are root elements themselves.
RECURSIVE XmlScan(_, _, _, _, _)
XmlScan(text, doc, depth, roots, found) ==
    IF text = <<>>
    THEN IF depth = 0 /\ roots = 1 THEN Some(found) ELSE None
    ELSE LET c == Head(text)
             rest == Tail(text)
         IN  CASE c \in XmlInvalidChars -> None
               [] c = "<timedtext>" ->
                    IF depth = 0 /\ roots >= 1 THEN None
                    ELSE XmlScan(rest, doc, depth + 1, 1, found)
               [] c = "</timedtext>" ->
                    IF depth = 0 THEN None
                    ELSE XmlScan(rest, doc, depth - 1, roots, found)
               [] c = "<p " ->
                    IF depth > 0 THEN XmlScan(rest, doc, depth, roots, found \o doc)
                    ELSE IF roots + Len(doc) > 1 THEN None
                    ELSE XmlScan(rest, doc, depth, roots + Len(doc), found)
               [] c \in XmlWhitespace -> XmlScan(rest, doc, depth, roots, found)
               [] OTHER ->
                    IF depth = 0 THEN None
                    ELSE XmlScan(rest, doc, depth, roots, found)

\* ET.fromstring(data): None when it raises ParseError, else the <p> elements
\* below the root (a text that is one <p> element alone has that element as
\* its root and none below it).  A byte order mark at the very start is
\* skipped; the chunk "<p " of a document without paragraphs holds no bytes.
xml_fromstring(data, doc) ==
    LET HasBytes(c) == c # "<p " \/ doc # <<>>
        text == SelectSeq(data, HasBytes)
    IN  XmlScan(IF text # <<>> /\ Head(text) = "UFEFF" THEN Tail(text) ELSE text,
                doc, 0, 0, <<>>)

\* obj.get("events") or []
EventsOf(obj) == IF IsNone(obj.events) THEN <<>> ELSE Val(obj.events)

\* .replace("\n", " ")
ReplaceNewlines(text) == [i \in 1..Len(text) |-> IF text[i] = "\n" THEN " " ELSE text[i]]

\* the segment texts joined last segment first
JoinedReversed(segs) ==
    Concat([i \in 1..Len(segs) |-> segs[Len(segs) + 1 - i].utf8])

\* "".join([(s.get("utf8") or "") for s in segs])
JoinedUtf8(segs) == Concat([i \in 1..Len(segs) |-> segs[i].utf8])

\* the sentence of an event appended whatever its text
SentenceOfEventUnfiltered(ev) ==
    IF IsNone(ev.tStartMs) \/ ev.segs = <<>> THEN <<>>
    ELSE << <<SecondsOf(Val(ev.tStartMs)), Strip(ReplaceNewlines(JoinedUtf8(ev.segs)))>> >>

SentenceOfEvent(ev) ==
    IF IsNone(ev.tStartMs) \/ ev.segs = <<>> THEN <<>>
    ELSE LET text == Strip(ReplaceNewlines(JoinedUtf8(ev.segs)))
         IN  IF text = <<>> THEN <<>> ELSE << <<SecondsOf(Val(ev.tStartMs)), text>> >>

parse_json3_sentences(evs) ==
    Concat([j \in 1..Len(evs) |-> SentenceOfEvent(evs[j])])

\* the word timestamp without the segment offset
WordMsAtEventStart(t0, s) == t0

\* int(t0) + int(s.get("tOffsetMs", 0))
WordMs(t0, s) == t0 + (IF IsNone(s.tOffsetMs) THEN 0 ELSE Val(s.tOffsetMs))

WordsOfEvent(ev) ==
    IF IsNone(ev.tStartMs) \/ ev.segs = <<>> THEN <<>>
    ELSE LET kept == SelectSeq(ev.segs,
                         LAMBDA sg : Strip(sg.utf8) # <<>> /\ ~Bracketed(Strip(sg.utf8)))
         IN  [i \in 1..Len(kept) |->
                <<SecondsOf(WordMs(Val(ev.tStartMs), kept[i])), Strip(kept[i].utf8)>>]

parse_json3_words(evs) ==
    Concat([j \in 1..Len(evs) |-> WordsOfEvent(evs[j])])

(***************************************************************************)
(* Inputs.  A <p> element is [t, d, text, segs]; an <s> element is         *)
(* [t, text].  p.text is read only when the paragraph has no <s> child,    *)
(* so the documents carry own text only on such paragraphs.                *)
(***************************************************************************)
Seg(t, text) == [t |-> t, text |-> text]
Para(t, d, text, segs) == [t |-> t, d |-> d, text |-> text, segs |-> segs]

SeqsUpTo(S, n) == UNION {[1..k -> S] : k \in 0..n}

\* the single paragraph of the single-paragraph specification
RichSegs == {Seg(o, x) : o \in {None, Some(500), Some(1200)},
                         x \in {<<" ">>, <<"a">>, <<"U00A0", "b">>, Marker}}
RichParas ==
    {Para(t, d, x, <<>>) : t \in {None, Some(1000)},
                           d \in {None, Some(100), Some(800), Some(2000)},
                           x \in {<<>>, <<"\r">>, <<"c", " ">>, <<" ">> \o Marker}}
    \cup
    {Para(t, d, <<>>, ss) : t \in {None, Some(1000)},
                            d \in {None, Some(100), Some(2000)},
                            ss \in SeqsUpTo(RichSegs, MaxSegs) \ {<<>>}}

\* the paragraphs of the multi-paragraph specification: no <s>, one <s>, or
\* two word segments in either offset order
SmallSegs == {Seg(o, x) : o \in {None, Some(400)},
                          x \in {<<"\r">>, <<" ", "a">>, Marker}}
WordSegs == {Seg(o, <<"a", "U0085">>) : o \in {None, Some(400)}}
SmallParas ==
    {Para(t, d, <<"b">>, <<>>) : t \in {None, Some(0), Some(400)},
                                 d \in {None, Some(400)}}
    \cup
    {Para(t, d, <<>>, <<s>>) : t \in {None, Some(0), Some(400)},
                               d \in {None, Some(400)},
                               s \in SmallSegs}
    \cup
    {Para(Some(0), d, <<>>, <<s1, s2>>) : d \in {None, Some(400)},
                                          s1 \in WordSegs, s2 \in WordSegs}

\* a json3 event is [tStartMs, segs]; a segment of it is [utf8, tOffsetMs]
JSeg(utf8, off) == [utf8 |-> utf8, tOffsetMs |-> off]
Event(t0, segs) == [tStartMs |-> t0, segs |-> segs]

\* the segment lists of the events: none, one segment (a word, a blank, a
\* bracketed text, with or without offset) or two segments
JsonSegLists ==
    {<<>>,
     <<JSeg(<<"a">>, None)>>,
     <<JSeg(<<"\f", "b">>, Some(300))>>,
     <<JSeg(<<"\r">>, None)>>,
     <<JSeg(<<"UD800">>, None)>>,
     <<JSeg(<<"[", "x", "]">>, None)>>,
     <<JSeg(<<"[", "\n", "]">>, Some(300))>>,
     <<JSeg(<<"a">>, None), JSeg(<<" ", "b">>, Some(300))>>,
     <<JSeg(<<"a">>, None), JSeg(<<"\n">>, Some(300))>>,
     <<JSeg(<<"[", "x", "]">>, Some(300)), JSeg(<<"a">>, Some(300))>>}
SmallEvents ==
    {Event(t0, ss) : t0 \in {None, Some(0), Some(1000)}, ss \in JsonSegLists}

\* payloads as download_caption returns them, well-formed
JsonBody == <<"{", "events", "}">>
Srv3Body == <<"\n", "<timedtext>", "<p ", "</timedtext>">>

\* only the converter reads the d attribute: the other scripts get the
\* paragraphs without it
UndatedParas == {p \in SmallParas : p.d = None}

Progs == {"convert", "words", "sentences", "lyrics"}

InitTracksIdle ==
    /\ tracks = <<>>
    /\ lang = <<>>
    /\ track = None
    /\ requests = <<>>
    /\ fetched = None
    /\ rc = "none"

\* no temporary directory yet, no srv3 file
NoTmp == [dir |-> "none", file |-> "absent"]

\* the temporary directory with the downloaded, well-formed srv3 file in it
Downloaded == [dir |-> "exists", file |-> "xml"]

\* a directory that is left behind when the with block is left
KeepTempDir(t) == t

\* TemporaryDirectory.__exit__: the directory and what is in it are removed
ExitTempDir(t) == [dir |-> "removed", file |-> "absent"]

InitMoreIdle ==
    /\ events = <<>>
    /\ attempts = <<>>
    /\ files = {}
    /\ tmp = NoTmp
    /\ arg = 0
    /\ stamp = <<>>

\* run.py is not running
InitPipelineIdle ==
    /\ original_url = None
    /\ procs = <<>>
    /\ exit_status = None

InitOutputsEmpty ==
    /\ appended = <<>>
    /\ cues = <<>>
    /\ srt = <<>>
    /\ tokens = <<>>
    /\ sents = <<>>
    /\ lines = <<>>
    /\ sentLines = <<>>

\* a script about to parse its srv3 document; fetch_srv3_words and
\* fetch_srv3_sentences have it in their temporary directory
InitRun ==
    /\ pc = "start"
    /\ InitOutputsEmpty
    /\ InitPipelineIdle
    /\ InitTracksIdle
    /\ events = <<>> /\ attempts = <<>> /\ files = {} /\ arg = 0 /\ stamp = <<>>
    /\ tmp = IF prog \in {"words", "sentences"} THEN Downloaded ELSE NoTmp

\* fetch_lyrics.main with the payload downloaded, in either format
InitFetched ==
    /\ prog = "lyrics"
    /\ pc = "fetched"
    /\ InitOutputsEmpty
    /\ InitPipelineIdle
    /\ tracks = <<>> /\ lang = <<>> /\ track = None /\ requests = <<>> /\ rc = "none"
    /\ attempts = <<>> /\ files = {} /\ tmp = NoTmp /\ arg = 0 /\ stamp = <<>>
    /\ \/ /\ fetched = Some([fmt |-> "srv3", content |-> Srv3Body])
          /\ payload \in SeqsUpTo(UndatedParas, MaxParas)
          /\ events = <<>>
       \/ /\ fetched = Some([fmt |-> "json3", content |-> JsonBody])
          /\ payload = <<>>
          /\ events \in SeqsUpTo(SmallEvents, MaxEvents)

Init ==
    \/ /\ prog = "convert"
       /\ payload \in SeqsUpTo(SmallParas, MaxParas)
       /\ InitRun
    \/ /\ prog \in Progs \ {"convert", "lyrics"}
       /\ payload \in SeqsUpTo(UndatedParas, MaxParas)
       /\ InitRun
    \/ InitFetched

InitPara ==
    /\ prog = "convert"
    /\ payload \in {<<p>> : p \in RichParas}
    /\ InitRun

(***************************************************************************)
(* convert_srv3_to_word_srt.main                                           *)
(***************************************************************************)
\* cues = parse_srv3_to_word_cues(in_path)
ConvertParse ==
    /\ prog = "convert" /\ pc = "start"
    /\ appended' = AppendedCues(payload)
    /\ cues' = parse_srv3_to_word_cues(payload)
    /\ pc' = "parsed"
    /\ UNCHANGED <<prog, payload, srt, tokens, sents, lines, sentLines>>
    /\ UNCHANGED trackVars
    /\ UNCHANGED moreVars
    /\ UNCHANGED pipelineVars

\* write_srt(cues, out_path)
ConvertWrite ==
    /\ prog = "convert" /\ pc = "parsed"
    /\ srt' = write_srt(cues)
    /\ pc' = "done"
    /\ UNCHANGED <<prog, payload, appended, cues, tokens, sents, lines, sentLines>>
    /\ UNCHANGED trackVars
    /\ UNCHANGED moreVars
    /\ UNCHANGED pipelineVars

(***************************************************************************)
(* fetch_srv3_words.main and fetch_srv3_sentences.main                     *)
(* Both download the srv3 file into a temporary directory, parse it inside *)
(* the with block and write their output after the block.  An exception    *)
(* raised inside the block leaves it through __exit__.                     *)
(***************************************************************************)
\* with tempfile.TemporaryDirectory() as tmpdir:
TmpEnter ==
    /\ prog \in {"words", "sentences"} /\ pc = "main"
    /\ tmp' = [dir |-> "exists", file |-> "absent"]
    /\ pc' = "tmpdir"
    /\ UNCHANGED <<prog, xmlVars, trackVars>>
    /\ UNCHANGED <<events, attempts, files, arg, stamp>>
    /\ UNCHANGED pipelineVars

\* srv3_path = download_srv3_subtitles(url, out_base): yt_dlp raises, or it
\* writes no file (FileNotFoundError), or it writes the file, well-formed or not
SrvDownload ==
    /\ prog \in {"words", "sentences"} /\ pc = "tmpdir"
    /\ \E got \in {"raise DownloadError", "raise FileNotFoundError", "xml", "garbage"} :
          IF got \in {"xml", "garbage"}
          THEN /\ tmp' = [tmp EXCEPT !.file = got]
               /\ pc' = "start"
               /\ rc' = rc
          ELSE /\ tmp' = ExitTempDir(tmp)
               /\ pc' = "done"
               /\ rc' = got
    /\ UNCHANGED <<prog, xmlVars, tracks, lang, track, requests, fetched>>
    /\ UNCHANGED <<events, attempts, files, arg, stamp>>
    /\ UNCHANGED pipelineVars

\* words = parse_srv3_words(srv3_path); ET.parse raises on a malformed file
WordsParse ==
    /\ prog = "words" /\ pc = "start"
    /\ IF tmp.file = "xml"
       THEN /\ tokens' = parse_srv3_words(payload)
            /\ pc' = "parsed"
            /\ UNCHANGED <<tmp, rc>>
       ELSE /\ rc' = "raise ParseError"
            /\ tmp' = ExitTempDir(tmp)
            /\ pc' = "done"
            /\ UNCHANGED tokens
    /\ UNCHANGED <<prog, payload, appended, cues, srt, sents, lines, sentLines>>
    /\ UNCHANGED <<tracks, lang, track, requests, fetched>>
    /\ UNCHANGED <<events, attempts, files, arg, stamp>>
    /\ UNCHANGED pipelineVars

\* the end of the with block
WordsLeaveTmp ==
    /\ prog = "words" /\ pc = "parsed"
    /\ tmp' = ExitTempDir(tmp)
    /\ pc' = "cleaned"
    /\ UNCHANGED <<prog, xmlVars, trackVars>>
    /\ UNCHANGED <<events, attempts, files, arg, stamp>>
    /\ UNCHANGED pipelineVars

\* write_wordlist(words, out_txt)
WordsWrite ==
    /\ prog = "words" /\ pc = "cleaned"
    /\ lines' = write_wordlist(tokens)
    /\ files' = files \cup {"words"}
    /\ rc' = "return"
    /\ pc' = "done"
    /\ UNCHANGED <<prog, payload, appended, cues, srt, tokens, sents, sentLines>>
    /\ UNCHANGED <<tracks, lang, track, requests, fetched>>
    /\ UNCHANGED <<events, attempts, tmp, arg, stamp>>
    /\ UNCHANGED pipelineVars

\* sentences = parse_srv3_sentences(srv3_path)
SentencesParse ==
    /\ prog = "sentences" /\ pc = "start"
    /\ IF tmp.file = "xml"
       THEN /\ tokens' = parse_srv3_sentences(payload)
            /\ pc' = "parsed"
            /\ UNCHANGED <<tmp, rc>>
       ELSE /\ rc' = "raise ParseError"
            /\ tmp' = ExitTempDir(tmp)
            /\ pc' = "done"
            /\ UNCHANGED tokens
    /\ UNCHANGED <<prog, payload, appended, cues, srt, sents, lines, sentLines>>
    /\ UNCHANGED <<tracks, lang, track, requests, fetched>>
    /\ UNCHANGED <<events, attempts, files, arg, stamp>>
    /\ UNCHANGED pipelineVars

\* the end of the with block
SentencesLeaveTmp ==
    /\ prog = "sentences" /\ pc = "parsed"
    /\ tmp' = ExitTempDir(tmp)
    /\ pc' = "cleaned"
    /\ UNCHANGED <<prog, xmlVars, trackVars>>
    /\ UNCHANGED <<events, attempts, files, arg, stamp>>
    /\ UNCHANGED pipelineVars

\* write_sentences_seconds(sentences, out_txt)
SentencesWrite ==
    /\ prog = "sentences" /\ pc = "cleaned"
    /\ lines' = write_sentences_seconds(tokens)
    /\ files' = files \cup {"sentences"}
    /\ rc' = "return"
    /\ pc' = "done"
    /\ UNCHANGED <<prog, payload, appended, cues, srt, tokens, sents, sentLines>>
    /\ UNCHANGED <<tracks, lang, track, requests, fetched>>
    /\ UNCHANGED <<events, attempts, tmp, arg, stamp>>
    /\ UNCHANGED pipelineVars

(***************************************************************************)
(* fetch_lyrics.main, from the accepted payload on                         *)
(***************************************************************************)
\* if fmt == 'json3': sentences = parse_json3_sentences(data); words = ...
\* else: sentences = parse_srv3_sentences(data); words = parse_srv3_words(data)
\* Each parser decodes the payload first; an undecodable payload raises.
LyricsParse ==
    /\ prog = "lyrics" /\ pc = "fetched"
    /\ LET fmt == Val(fetched).fmt
           data == Val(fetched).content
           obj == json_loads(data, events)
           root == xml_fromstring(data, payload)
       IN  IF fmt = "json3"
           THEN IF IsNone(obj)
                THEN /\ rc' = "raise JSONDecodeError" /\ pc' = "done"
                     /\ UNCHANGED <<sents, tokens>>
                ELSE /\ sents' = parse_json3_sentences(EventsOf(Val(obj)))
                     /\ tokens' = parse_json3_words(EventsOf(Val(obj)))
                     /\ pc' = "parsed" /\ rc' = rc
           ELSE IF IsNone(root)
                THEN /\ rc' = "raise ParseError" /\ pc' = "done"
                     /\ UNCHANGED <<sents, tokens>>
                ELSE /\ sents' = lyrics_parse_srv3_sentences(Val(root))
                     /\ tokens' = lyrics_parse_srv3_words(Val(root))
                     /\ pc' = "parsed" /\ rc' = rc
    /\ UNCHANGED <<prog, payload, appended, cues, srt, lines, sentLines>>
    /\ UNCHANGED <<tracks, lang, track, requests, fetched>>
    /\ UNCHANGED moreVars
    /\ UNCHANGED pipelineVars

\* write_pairs(sentences, out_sent): the file is created, then written line
\* by line; a text that cannot be encoded ends main with the exception
LyricsWriteSentences ==
    /\ prog = "lyrics" /\ pc = "parsed"
    /\ sents' = SortPairs(sents)
    /\ sentLines' = write_pairs(sents)
    /\ files' = files \cup {"sentences"}
    /\ IF write_pairs_raises(sents)
       THEN rc' = "raise UnicodeEncodeError" /\ pc' = "done"
       ELSE rc' = rc /\ pc' = "sentences written"
    /\ UNCHANGED <<prog, payload, appended, cues, srt, tokens, lines>>
    /\ UNCHANGED <<tracks, lang, track, requests, fetched>>
    /\ UNCHANGED <<events, attempts, tmp, arg, stamp>>
    /\ UNCHANGED pipelineVars

\* write_pairs(words, out_words); the prints; return 0
LyricsWriteWords ==
    /\ prog = "lyrics" /\ pc = "sentences written"
    /\ tokens' = SortPairs(tokens)
    /\ lines' = write_pairs(tokens)
    /\ files' = files \cup {"words"}
    /\ rc' = IF write_pairs_raises(tokens) THEN "raise UnicodeEncodeError" ELSE "return 0"
    /\ pc' = "done"
    /\ UNCHANGED <<prog, payload, appended, cues, srt, sents, sentLines>>
    /\ UNCHANGED <<tracks, lang, track, requests, fetched>>
    /\ UNCHANGED <<events, attempts, tmp, arg, stamp>>
    /\ UNCHANGED pipelineVars

NextConvert == ConvertParse \/ ConvertWrite

Next ==
    \/ ConvertParse
    \/ ConvertWrite
    \/ WordsParse
    \/ WordsLeaveTmp
    \/ WordsWrite
    \/ SentencesParse
    \/ SentencesLeaveTmp
    \/ SentencesWrite
    \/ LyricsParse
    \/ LyricsWriteSentences
    \/ LyricsWriteWords

\* every script on documents of several paragraphs
Spec == Init /\ [][Next]_vars

\* the converter on a document of one paragraph with up to MaxSegs segments
SpecPara == InitPara /\ [][NextConvert]_vars

(***************************************************************************)
(* scripts/fetch_lyrics.py: pick_track                                     *)
(* A track is [languageCode, vssId, kind, baseUrl]; a missing key and an   *)
(* empty string are both falsy in "a or b" and are the empty sequence.     *)
(***************************************************************************)
Range(s) == {s[i] : i \in DOMAIN s}

\* s.startswith(prefix)
IsPrefix(prefix, s) == Len(prefix) <= Len(s) /\ SubSeq(s, 1, Len(prefix)) = prefix

\* t.get("languageCode") or t.get("vssId") or ""
TrackCode(t) ==
    IF t.languageCode # <<>> THEN t.languageCode
    ELSE IF t.vssId # <<>> THEN t.vssId
    ELSE <<>>

\* score(t): (exact, prefix, asr)
score(t, lg) ==
    LET code == TrackCode(t)
        exact == IF code = lg THEN 1 ELSE 0
        prefix == IF lg # <<>> /\ IsPrefix(lg, code) THEN 1 ELSE 0
        asr == IF t.kind = "asr" \/ IsPrefix(<<"a", ".">>, t.vssId) THEN 1 ELSE 0
    IN  <<exact, prefix, asr>>

\* the list with its sort keys
Scored(ts, lg) == [i \in 1..Len(ts) |-> <<score(ts[i], lg), ts[i]>>]

Reverse(s) == [i \in 1..Len(s) |-> s[Len(s) + 1 - i]]

\* a sort that forgets reverse=True
SortedAscending(ts, lg) == Items(SortStable(Scored(ts, lg), FALSE))

\* sorted(...)[::-1] in place of reverse=True: equal scores change places
SortedThenReversed(ts, lg) == Reverse(SortedAscending(ts, lg))

\* sorted(tracks, key=score, reverse=True): descending, and tracks with equal
\* scores keep their input order
SortedDescending(ts, lg) == Items(SortStable(Scored(ts, lg), TRUE))

pick_track(ts, lg) ==
    IF ts = <<>> THEN None
    ELSE Some(SortedDescending(ts, lg)[1])

(***************************************************************************)
(* scripts/fetch_lyrics.py: download_caption                               *)
(* A URL and a response body are sequences of chunks; "x in url" is chunk   *)
(* membership, and a byte string is in a body when one of the body's       *)
(* chunks holds it.  A response either raises (timeout, connection error)  *)
(* or carries a status and a content.                                      *)
(***************************************************************************)
Json3 == "json3"
Srv3 == "srv3"
Prefer == <<Json3, Srv3>>

\* the line )]}' with its newline
XssiLine == ")]}'\n"

RequestUrl(base_url, fmt) ==
    LET u1 == IF "fmt=" \notin Range(base_url)
              THEN base_url \o <<IF "?" \in Range(base_url) THEN "&" ELSE "?", "fmt=", fmt>>
              ELSE base_url
    IN  IF fmt = Json3 /\ "xorb=" \notin Range(u1)
        THEN u1 \o <<"&", "xorb=", "2", "&", "xobt=", "3", "&", "xovt=", "3">>
        ELSE u1

\* b"events" in chunk: the events member holds the bytes, and so does the
\* error message that names them (b"\"events\"" in body implies the same)
HoldsEvents(c) == c \in {"events", NoEventsError}

\* b"<p " in chunk
HoldsParagraphOpening(c) == c = "<p "

\* the checks made on an answered request: status, emptiness, format marker
Accepts(fmt, r) ==
    /\ ~(r.status # 200 \/ r.content = <<>>)
    /\ LET body0 == bytes_lstrip(r.content)
           body == IF fmt = Json3 /\ body0 # <<>> /\ Head(body0) = XssiLine
                   THEN Tail(body0) ELSE body0
       IN  IF fmt = Json3 THEN \E i \in DOMAIN body : HoldsEvents(body[i])
           ELSE \E i \in DOMAIN body : HoldsParagraphOpening(body[i])

\* one iteration's request: the format, the URL asked, the answer of requests.get
Attempt(base_url, resp, fmt, k) ==
    [fmt |-> fmt, url |-> RequestUrl(base_url, fmt), answer |-> resp[k]]

\* a loop that still asks for the remaining formats after it accepted one
RECURSIVE DownloadNoStop(_, _, _, _, _)
DownloadNoStop(base_url, prefer, resp, k, tried) ==
    IF k > Len(prefer)
    THEN [outcome |-> "raise RuntimeError", tried |-> tried, result |-> None]
    ELSE LET fmt == prefer[k]
             sent == Append(tried, Attempt(base_url, resp, fmt, k))
         IN  IF resp[k].raises
             THEN [outcome |-> "raise RequestException", tried |-> sent, result |-> None]
             ELSE IF Accepts(fmt, resp[k])
             THEN [outcome |-> "return",
                   tried |-> sent \o [i \in 1..(Len(prefer) - k) |->
                                         Attempt(base_url, resp, prefer[k + i], k + i)],
                   result |-> Some([fmt |-> fmt, content |-> resp[k].content])]
             ELSE DownloadNoStop(base_url, prefer, resp, k + 1, sent)

\* a loop that catches the exception of requests.get and goes on to the next format
RECURSIVE DownloadSwallows(_, _, _, _, _)
DownloadSwallows(base_url, prefer, resp, k, tried) ==
    IF k > Len(prefer)
    THEN [outcome |-> "raise RuntimeError", tried |-> tried, result |-> None]
    ELSE LET fmt == prefer[k]
             sent == Append(tried, Attempt(base_url, resp, fmt, k))
         IN  IF ~resp[k].raises /\ Accepts(fmt, resp[k])
             THEN [outcome |-> "return", tried |-> sent,
                   result |-> Some([fmt |-> fmt, content |-> resp[k].content])]
             ELSE DownloadSwallows(base_url, prefer, resp, k + 1, sent)

\* the loop "for fmt in prefer" from attempt k on; resp[k] answers attempt k;
\* tried is the list of requests made so far
RECURSIVE DownloadFrom(_, _, _, _, _)
DownloadFrom(base_url, prefer, resp, k, tried) ==
    IF k > Len(prefer)
    THEN [outcome |-> "raise RuntimeError", tried |-> tried, result |-> None]
    ELSE LET fmt == prefer[k]
             sent == Append(tried, Attempt(base_url, resp, fmt, k))
         IN  IF resp[k].raises
             THEN [outcome |-> "raise RequestException", tried |-> sent, result |-> None]
             ELSE IF Accepts(fmt, resp[k])
             THEN [outcome |-> "return", tried |-> sent,
                   result |-> Some([fmt |-> fmt, content |-> resp[k].content])]
             ELSE DownloadFrom(base_url, prefer, resp, k + 1, sent)

download_caption(base_url, prefer, resp) == DownloadFrom(base_url, prefer, resp, 1, <<>>)

(***************************************************************************)
(* Inputs of the track specifications                                      *)
(***************************************************************************)
TH == <<"t", "h">>
EN == <<"e", "n">>
Track(lc, vss, kind, url) == [languageCode |-> lc, vssId |-> vss, kind |-> kind, baseUrl |-> url]

UrlPlain == <<"https://www.youtube.com/api/timedtext">>
UrlQuery == <<"https://www.youtube.com/api/timedtext", "?", "v=", "x">>
UrlFmt == <<"https://www.youtube.com/api/timedtext", "?", "v=", "x", "&", "fmt=", "srv1">>

PickTracks ==
    {Track(lc, vss, kind, url) :
        lc \in {<<>>, TH, <<"t", "h", "-", "T", "H">>, EN},
        vss \in {<<>>, <<"a", ".", "t", "h">>},
        kind \in {"", "asr"},
        url \in {UrlPlain, UrlQuery}}

MainTracks ==
    {Track(lc, <<>>, kind, url) :
        lc \in {TH, EN},
        kind \in {"", "asr"},
        url \in {<<>>, UrlQuery, UrlFmt}}

Contents ==
    {<<>>,
     <<"{", "events", "}">>,
     <<XssiLine, "{", "events", "}">>,
     <<"{", "error", "}">>,
     <<"{", NoEventsError, "}">>,
     <<"\f", "{", "events", "}">>,
     <<"{", "\n", "events", " ", "}">>,
     <<"\n", "<timedtext>", "<p ", "</timedtext>">>,
     <<"UFEFF", "<timedtext>", "\n", "<p ", "</timedtext>">>,
     <<"<timedtext>", "<p ">>}

Responses ==
    {[raises |-> TRUE, status |-> 0, content |-> <<>>]}
    \cup
    {[raises |-> FALSE, status |-> st, content |-> c] : st \in {200, 404}, c \in Contents}

InitPick ==
    /\ prog = "pick_track"
    /\ pc = "start"
    /\ payload = <<>>
    /\ InitOutputsEmpty
    /\ InitPipelineIdle
    /\ tracks \in SeqsUpTo(PickTracks, MaxTracks)
    /\ lang \in {<<>>, TH, EN}
    /\ track = None
    /\ requests = <<>>
    /\ fetched = None
    /\ rc = "none"
    /\ InitMoreIdle

\* the captions of the video as the server holds them, in both formats
Captions ==
    {[paras |-> <<Para(Some(400), None, <<>>, <<Seg(None, <<"a">>)>>),
                  Para(Some(0), None, <<"b">>, <<>>)>>,
      events |-> <<Event(Some(400), <<JSeg(<<"a">>, None)>>),
                   Event(Some(0), <<JSeg(<<"b">>, None)>>)>>],
     [paras |-> <<Para(Some(0), None, <<>>, <<Seg(None, <<"a">>)>>)>>,
      events |-> <<Event(Some(400), <<JSeg(<<"UD800">>, None)>>),
                   Event(Some(0), <<JSeg(<<"a">>, None)>>)>>]}

InitLyrics ==
    /\ prog = "lyrics"
    /\ pc = "main"
    /\ \E c \in Captions : payload = c.paras /\ events = c.events
    /\ InitOutputsEmpty
    /\ InitPipelineIdle
    /\ tracks \in SeqsUpTo(MainTracks, MaxTracks)
    /\ lang = TH
    /\ track = None
    /\ requests = <<>>
    /\ fetched = None
    /\ rc = "none"
    /\ attempts = <<>> /\ files = {} /\ tmp = NoTmp /\ arg = 0 /\ stamp = <<>>

\* pick_track applied to a track list and a target language
Pick ==
    /\ prog = "pick_track" /\ pc = "start"
    /\ track' = pick_track(tracks, lang)
    /\ pc' = "picked"
    /\ UNCHANGED <<prog, xmlVars, tracks, lang, requests, fetched, rc>>
    /\ UNCHANGED moreVars
    /\ UNCHANGED pipelineVars

(***************************************************************************)
(* fetch_lyrics.main up to the accepted payload                            *)
(***************************************************************************)
\* if not track or not track.get('baseUrl')
Unselectable(tr) == IsNone(tr) \/ Val(tr).baseUrl = <<>>

\* tracks = fetch_captiontracks_via_youtubei(...); the two early returns
MainSelectTrack ==
    /\ prog = "lyrics" /\ pc = "main"
    /\ IF tracks = <<>>
       THEN /\ rc' = "return 2"
            /\ pc' = "done"
            /\ UNCHANGED track
       ELSE /\ track' = pick_track(tracks, lang)
            /\ IF Unselectable(track')
               THEN rc' = "return 3" /\ pc' = "done"
               ELSE rc' = rc /\ pc' = "download"
    /\ UNCHANGED <<prog, xmlVars, tracks, lang, requests, fetched>>
    /\ UNCHANGED moreVars
    /\ UNCHANGED pipelineVars

\* fmt, data = download_caption(track['baseUrl'], prefer=("json3", "srv3"))
MainDownload ==
    /\ prog = "lyrics" /\ pc = "download"
    /\ \E resp \in [1..Len(Prefer) -> Responses] :
          LET got == download_caption(Val(track).baseUrl, Prefer, resp)
          IN  /\ attempts' = got.tried
              /\ requests' = [i \in 1..Len(got.tried) |-> got.tried[i].url]
              /\ fetched' = got.result
              /\ IF got.outcome = "return"
                 THEN rc' = rc /\ pc' = "fetched"
                 ELSE rc' = got.outcome /\ pc' = "done"
    /\ UNCHANGED <<prog, xmlVars, tracks, lang, track>>
    /\ UNCHANGED <<events, files, tmp, arg, stamp>>
    /\ UNCHANGED pipelineVars

NextLyrics ==
    MainSelectTrack \/ MainDownload \/ LyricsParse \/ LyricsWriteSentences \/ LyricsWriteWords

(***************************************************************************)
(* ms_to_srt_timestamp on millisecond values around the field boundaries   *)
(***************************************************************************)
StampBases == {0, 994, 59994, 3599994, 359999994}
StampInputs == {b + d : b \in StampBases, d \in 0..MaxDelta}

InitStamp ==
    /\ prog = "ms_to_srt_timestamp"
    /\ pc = "start"
    /\ payload = <<>>
    /\ InitOutputsEmpty
    /\ InitPipelineIdle
    /\ InitTracksIdle
    /\ events = <<>> /\ attempts = <<>> /\ files = {} /\ tmp = NoTmp
    /\ arg \in StampInputs
    /\ stamp = <<>>

Stamp ==
    /\ prog = "ms_to_srt_timestamp" /\ pc = "start"
    /\ stamp' = ms_to_srt_timestamp(arg)
    /\ pc' = "stamped"
    /\ UNCHANGED <<prog, xmlVars, trackVars>>
    /\ UNCHANGED <<events, attempts, files, tmp, arg>>
    /\ UNCHANGED pipelineVars

SpecStamp == InitStamp /\ [][Stamp]_vars

(***************************************************************************)
(* fetch_srv3_words.main and fetch_srv3_sentences.main from their start    *)
(***************************************************************************)
InitTmp ==
    /\ prog \in {"words", "sentences"}
    /\ pc = "main"
    /\ payload \in SeqsUpTo(UndatedParas, MaxParas)
    /\ InitOutputsEmpty
    /\ InitPipelineIdle
    /\ InitTracksIdle
    /\ InitMoreIdle

NextTmp ==
    \/ TmpEnter
    \/ SrvDownload
    \/ WordsParse
    \/ WordsLeaveTmp
    \/ WordsWrite
    \/ SentencesParse
    \/ SentencesLeaveTmp
    \/ SentencesWrite

SpecTmp == InitTmp /\ [][NextTmp]_vars

\* pick_track on every track list and target language
SpecPick == InitPick /\ [][Pick]_vars

\* fetch_lyrics.main: track listing, selection, download, parsing, writing
SpecLyrics == InitLyrics /\ [][NextLyrics]_vars

(***************************************************************************)
(* convert_srv3_to_word_srt.main on documents whose words lie closer than  *)
(* the marker's 500 ms and the 250 ms fallback                             *)
(***************************************************************************)
CloseSegLists ==
    {<<Seg(None, <<"a">>), Seg(Some(200), <<"b">>)>>,
     <<Seg(None, Marker), Seg(Some(200), <<"b">>)>>,
     <<Seg(Some(200), <<"a">>), Seg(Some(200), <<"b">>)>>,
     <<Seg(Some(200), <<"a">>)>>}

CloseParas ==
    {Para(t, d, <<>>, ss) : t \in {Some(0), Some(1000)},
                            d \in {None, Some(100), Some(2000)},
                            ss \in CloseSegLists}

InitClose ==
    /\ prog = "convert"
    /\ payload \in SeqsUpTo(CloseParas, MaxParas) \ {<<>>}
    /\ InitRun

SpecClose == InitClose /\ [][NextConvert]_vars

(***************************************************************************)
(* run.py: the three scripts as child processes, then the manifest         *)
(***************************************************************************)
MaxExitCode == 3
MaxSignal == 2

\* what subprocess.run can report: an exit code, or minus the number of the
\* signal that killed the child
ReturnCodes == (0 - MaxSignal)..MaxExitCode

DEFAULT_URL == <<"https://www.youtube.com/watch?v=1gfdp6V1Epc">>

\* argv is the command line after the script name; entered is the line
\* typed at the prompt, None at end of input
resolve_url(argv, entered) ==
    IF Len(argv) >= 1 /\ Strip(argv[1]) # <<>> THEN Strip(argv[1])
    ELSE LET typed == IF IsNone(entered) THEN <<>> ELSE Strip(Val(entered))
         IN  IF typed # <<>> THEN typed ELSE DEFAULT_URL

Argvs == {<<>>, << <<"U3000">> >>, << <<" ", "u", "\r">> >>}
Entered == {None, Some(<<>>), Some(<<"v", " ">>)}

\* the scripts in the order main runs them
Steps == <<"fetch_audio.py", "fetch_srv3_words.py", "fetch_srv3_sentences.py">>

\* a run that does not look at the return code
run_unchecked(returncode) == None

\* run(cmd) after the child ended: the code of the SystemExit raised, or None
run(returncode) == IF returncode # 0 THEN Some(returncode) ELSE None

\* the exit status of a process that ends with SystemExit(code)
ExitStatus(code) == code % 256

InitPipeline ==
    /\ prog = "run"
    /\ pc = "main"
    /\ payload = <<>>
    /\ InitOutputsEmpty
    /\ InitPipelineIdle
    /\ InitTracksIdle
    /\ InitMoreIdle

\* url = resolve_url(); OUTPUT_DIR.mkdir(...)
ResolveUrl ==
    /\ prog = "run" /\ pc = "main"
    /\ \E argv \in Argvs, entered \in Entered :
          original_url' = Some(resolve_url(argv, entered))
    /\ pc' = "run"
    /\ UNCHANGED <<prog, xmlVars, trackVars, moreVars, procs, exit_status>>

\* subprocess.run(cmd, cwd=PROJECT_ROOT) starts the next script
RunStart ==
    /\ prog = "run" /\ pc = "run"
    /\ procs' = Append(procs, [script |-> Steps[Len(procs) + 1],
                               url |-> Val(original_url),
                               returncode |-> None])
    /\ pc' = "wait"
    /\ UNCHANGED <<prog, xmlVars, trackVars, moreVars, original_url, exit_status>>

\* the file each script leaves when it runs to its end: fetch_audio.py the
\* MP3 under audio/, the two extractors their list in the project root
StepOutputs == <<"audio/song.mp3", "words", "sentences">>

\* the running child writes its file (the last statement of its main but
\* the print) while run.py is blocked in subprocess.run
ChildWrite ==
    /\ prog = "run" /\ pc = "wait"
    /\ StepOutputs[Len(procs)] \notin files
    /\ files' = files \cup {StepOutputs[Len(procs)]}
    /\ UNCHANGED <<prog, pc, xmlVars, trackVars, pipelineVars>>
    /\ UNCHANGED <<events, attempts, tmp, arg, stamp>>

\* the child ends; subprocess.run returns its return code.  A child exits
\* with 0 only after it has written its file; one that fails or is killed
\* ends with another code, before the write or after it
ChildExit ==
    /\ prog = "run" /\ pc = "wait"
    /\ \E c \in ReturnCodes :
          /\ c = 0 => StepOutputs[Len(procs)] \in files
          /\ procs' = [procs EXCEPT ![Len(procs)].returncode = Some(c)]
    /\ pc' = "check"
    /\ UNCHANGED <<prog, xmlVars, trackVars, moreVars, original_url, exit_status>>

\* if completed.returncode != 0: raise SystemExit(completed.returncode);
\* else main goes on to the next script, or to the manifest after the third
RunCheck ==
    /\ prog = "run" /\ pc = "check"
    /\ LET raised == run(Val(procs[Len(procs)].returncode))
       IN  IF ~IsNone(raised)
           THEN /\ rc' = "raise SystemExit"
                /\ exit_status' = Some(ExitStatus(Val(raised)))
                /\ pc' = "done"
           ELSE /\ rc' = rc
                /\ exit_status' = exit_status
                /\ pc' = IF Len(procs) = Len(Steps) THEN "manifest" ELSE "run"
    /\ UNCHANGED <<prog, xmlVars, tracks, lang, track, requests, fetched>>
    /\ UNCHANGED <<moreVars, original_url, procs>>

\* json.dump(manifest, f, ...) into output/manifest.json; main returns
WriteManifest ==
    /\ prog = "run" /\ pc = "manifest"
    /\ files' = files \cup {"manifest.json"}
    /\ rc' = "return"
    /\ exit_status' = Some(0)
    /\ pc' = "done"
    /\ UNCHANGED <<prog, xmlVars, tracks, lang, track, requests, fetched>>
    /\ UNCHANGED <<events, attempts, tmp, arg, stamp, original_url, procs>>

NextPipeline ==
    ResolveUrl \/ RunStart \/ ChildWrite \/ ChildExit \/ RunCheck \/ WriteManifest

SpecPipeline == InitPipeline /\ [][NextPipeline]_vars

(***************************************************************************)
(* Properties                                                              *)
(***************************************************************************)
\* the number a sequence of digit characters writes
DigitValue(c) == CHOOSE d \in 0..9 : Digits[d + 1] = c
RECURSIVE NumberOf(_)
NumberOf(ds) ==
    IF ds = <<>> THEN 0
    ELSE NumberOf(SubSeq(ds, 1, Len(ds) - 1)) * 10 + DigitValue(ds[Len(ds)])

\* the digit fields of a text H..H:MM:SS,mmm, split at its two colons and
\* its comma
TimestampFields(ts) ==
    LET c1 == CHOOSE i \in 1..Len(ts) : ts[i] = ":" /\ \A j \in 1..(i - 1) : ts[j] # ":"
        c2 == CHOOSE i \in (c1 + 1)..Len(ts) : ts[i] = ":"
        k == CHOOSE i \in 1..Len(ts) : ts[i] = ","
    IN  <<SubSeq(ts, 1, c1 - 1), SubSeq(ts, c1 + 1, c2 - 1),
          SubSeq(ts, c2 + 1, k - 1), SubSeq(ts, k + 1, Len(ts))>>

\* a rendered HH:MM:SS,mmm read back as milliseconds
TimestampMs(ts) ==
    LET f == TimestampFields(ts)
    IN  ((NumberOf(f[1]) * 60 + NumberOf(f[2])) * 60 + NumberOf(f[3])) * 1000 + NumberOf(f[4])

\* a written "<seconds>.<thousandths>" read back as milliseconds
LineMs(l) == l.ts.whole * 1000 + l.ts.frac

LinesAscend(ls) ==
    \A i, j \in DOMAIN ls : i < j => LineMs(ls[i]) <= LineMs(ls[j])

BlocksAscend(bs) ==
    \A i, j \in DOMAIN bs : i < j =>
        \/ TimestampMs(bs[i].start) < TimestampMs(bs[j].start)
        \/ /\ TimestampMs(bs[i].start) = TimestampMs(bs[j].start)
           /\ TimestampMs(bs[i].end) <= TimestampMs(bs[j].end)

\* C1: whatever the order of the items in the document, the lines written by
\* write_pairs, write_wordlist and write_sentences_seconds are non-decreasing
\* in timestamp, and the blocks written by write_srt are non-decreasing in
\* start time, and in end time among equal start times.
C1_OutputAscends ==
    pc = "done" =>
        /\ LinesAscend(lines)
        /\ LinesAscend(sentLines)
        /\ BlocksAscend(srt)

\* C1 witness: write_pairs has written two words whose parsed order was not
\* the written order.
C1_Witness ==
    /\ prog = "lyrics" /\ pc = "done"
    /\ Len(lines) = 2
    /\ lyrics_parse_srv3_words(payload) # tokens
    /\ LineMs(lines[1]) < LineMs(lines[2])

\* the written blocks read back as cues
WrittenCues(bs) ==
    [k \in DOMAIN bs |-> <<TimestampMs(bs[k].start), TimestampMs(bs[k].end), bs[k].text>>]

\* C2: every block written by write_srt ends strictly after it starts; the
\* cues with end <= start are left out and every cue with end > start is
\* written, in the order of the list.
C2_WrittenEndAfterStart ==
    (prog = "convert" /\ pc = "done") =>
        /\ \A k \in DOMAIN srt : TimestampMs(srt[k].end) > TimestampMs(srt[k].start)
        /\ WrittenCues(srt) = SelectSeq(cues, LAMBDA c : c[2] > c[1])

\* C2 witness: the list held a cue ending at its start, a cue ending before
\* its start and a cue ending after it.
C2_Witness ==
    /\ prog = "convert" /\ pc = "done"
    /\ \E i \in DOMAIN cues : cues[i][2] = cues[i][1]
    /\ \E i \in DOMAIN cues : cues[i][2] < cues[i][1]
    /\ \E i \in DOMAIN cues : cues[i][2] > cues[i][1]
    /\ Len(srt) < Len(cues)

\* the paragraph of the single-paragraph specification and what the parser
\* keeps of it
TheP == payload[1]
Segmented == ~IsNone(TheP.t) /\ TheP.segs # <<>>
Remaining == KeptSegments(TheP.segs)
AbsStart(i) == Val(TheP.t) + Remaining[i][1]
WordCues == appended[1]

\* C3 as claimed: the end of every non-final remaining segment is the
\* absolute start of the next remaining segment.
C3_NonFinalEndIsNextStart ==
    (pc # "start" /\ Segmented) =>
        \A i \in 1..(Len(Remaining) - 1) : WordCues[i][2] = AbsStart(i + 1)

\* C3 amended: the end of every non-final remaining segment whose text is not
\* the interlude marker is the absolute start of the next remaining segment;
\* a non-final marker segment ends at the later of that start and its own
\* start + 500 ms.
C3_NonFinalEnd ==
    (pc # "start" /\ Segmented) =>
        /\ Len(WordCues) = Len(Remaining)
        /\ \A i \in 1..(Len(Remaining) - 1) :
              /\ WordCues[i][1] = AbsStart(i)
              /\ WordCues[i][2] =
                    IF Remaining[i][2] # Marker THEN AbsStart(i + 1)
                    ELSE Max(AbsStart(i + 1), AbsStart(i) + 500)

\* C3 witness: an empty segment was dropped between two words, and the first
\* word ends where the third segment starts.
C3_Witness ==
    /\ pc = "parsed" /\ Segmented
    /\ Len(TheP.segs) = 3 /\ Len(Remaining) = 2
    /\ Strip(TheP.segs[2].text) = <<>>
    /\ TheP.segs[2].t = Some(500) /\ TheP.segs[3].t = Some(1200)
    /\ Remaining[1][2] # Marker
    /\ WordCues[1][2] = 2200

\* C4 as claimed: the final remaining segment ends at the paragraph's end
\* when the paragraph has a duration, and 250 ms after its start otherwise.
C4_FinalEndIsParagraphEnd ==
    (pc # "start" /\ Segmented /\ Remaining # <<>>) =>
        LET n == Len(Remaining)
        IN  WordCues[n][2] = IF ~IsNone(TheP.d) THEN Val(TheP.t) + Val(TheP.d)
                             ELSE AbsStart(n) + 250

\* C4 amended: the same, for a final segment whose text is not the interlude
\* marker; a final marker segment ends at the later of that end and its own
\* start + 500 ms.
C4_FinalEnd ==
    (pc # "start" /\ Segmented /\ Remaining # <<>>) =>
        LET n == Len(Remaining)
            plain == IF ~IsNone(TheP.d) THEN Val(TheP.t) + Val(TheP.d)
                     ELSE AbsStart(n) + 250
        IN  /\ Len(WordCues) = n
            /\ WordCues[n][2] = IF Remaining[n][2] # Marker THEN plain
                                ELSE Max(plain, AbsStart(n) + 500)

\* C4 witness: t=1000 d=2000 with words at offsets 0, 500, 1200 gives the ends
\* 1500, 2200, 3000.
C4_Witness ==
    /\ pc = "parsed"
    /\ TheP.t = Some(1000) /\ TheP.d = Some(2000)
    /\ WordCues = << <<1000, 1500, <<"a">> >>, <<1500, 2200, <<"a">> >>, <<2200, 3000, <<"a">> >> >>

\* C5 as claimed: every cue whose text is the interlude marker spans at least
\* 500 ms, child segment or sole text of a paragraph alike.
C5_EveryMarkerCueSpans500 ==
    pc # "start" =>
        \A k \in DOMAIN cues : cues[k][3] = Marker => cues[k][2] - cues[k][1] >= 500

\* C5 amended: every cue made from a child segment whose text is the interlude
\* marker spans at least 500 ms; a marker that is the sole text of a paragraph
\* without child segments is kept as it is, spanning the paragraph's duration.
C5_MarkerSegmentSpans500 ==
    pc # "start" =>
        \A k \in DOMAIN cues : cues[k][3] = Marker =>
            IF TheP.segs # <<>> THEN cues[k][2] - cues[k][1] >= 500
            ELSE cues[k][2] - cues[k][1] = Val(TheP.d)

\* C5 witness: a marker that is the only segment of a paragraph lasting
\* 100 ms was widened to 500 ms.
C5_Witness ==
    /\ pc = "parsed"
    /\ Len(TheP.segs) = 1 /\ TheP.d = Some(100)
    /\ cues = << <<1000, 1500, Marker>> >>

\* C6: a paragraph without child segments and with non-empty trimmed text
\* gives exactly the cue (start, start + duration, text) when it has a start
\* and a duration, and no cue when either is missing.
C6_SoloParagraph ==
    (pc # "start" /\ TheP.segs = <<>> /\ Strip(TheP.text) # <<>>) =>
        cues = IF ~IsNone(TheP.t) /\ ~IsNone(TheP.d)
               THEN << <<Val(TheP.t), Val(TheP.t) + Val(TheP.d), Strip(TheP.text)>> >>
               ELSE <<>>

\* C6 witness: text "[marker]", d=800, t=1000 gives the single cue
\* (1000, 1800, "[marker]").
C6_Witness ==
    /\ pc = "parsed"
    /\ TheP.segs = <<>>
    /\ cues = << <<1000, 1800, Marker>> >>

\* C7 as claimed: the k-th block written by write_srt carries the number k,
\* also when cues were dropped.
C7_BlocksNumberedSequentially ==
    (prog = "convert" /\ pc = "done") =>
        \A k \in DOMAIN srt : srt[k].idx = k

\* tuple comparison a >= b, written out on the three components
ScoreGeq(a, b) ==
    \/ a[1] > b[1]
    \/ a[1] = b[1] /\ a[2] > b[2]
    \/ a[1] = b[1] /\ a[2] = b[2] /\ a[3] >= b[3]

\* C8: pick_track returns no track exactly when the list is empty; otherwise
\* it returns one element of the list whose score (exact match, prefix match,
\* asr) is lexicographically at least the score of every track of the list.
C8_PickGreatestScore ==
    pc = "picked" =>
        /\ IsNone(track) <=> tracks = <<>>
        /\ tracks # <<>> =>
              /\ \E i \in DOMAIN tracks : Val(track) = tracks[i]
              /\ \A j \in DOMAIN tracks :
                    ScoreGeq(score(Val(track), lang), score(tracks[j], lang))

\* C8 witness: from the list [en, th/asr] with target th the th track is
\* returned.
C8_Witness ==
    /\ pc = "picked" /\ lang = TH
    /\ Len(tracks) = 2
    /\ tracks[1].languageCode = EN /\ tracks[1].kind = "" /\ tracks[1].vssId = <<>>
    /\ tracks[2].languageCode = TH /\ tracks[2].kind = "asr"
    /\ track = Some(tracks[2])
    /\ score(tracks[2], lang) = <<1, 1, 1>> /\ score(tracks[1], lang) = <<0, 0, 0>>

\* C9: among the tracks that share the greatest score, pick_track returns the
\* one that comes first in the input list.
C9_TieKeepsInputOrder ==
    (pc = "picked" /\ tracks # <<>>) =>
        \E k \in DOMAIN tracks :
            /\ track = Some(tracks[k])
            /\ \A j \in DOMAIN tracks :
                  ScoreGeq(score(tracks[k], lang), score(tracks[j], lang))
            /\ \A j \in 1..(k - 1) : score(tracks[j], lang) # score(tracks[k], lang)

\* C9 witness: two different tracks share the greatest score and the first
\* one is returned.
C9_Witness ==
    /\ pc = "picked"
    /\ Len(tracks) = 2
    /\ tracks[1] # tracks[2]
    /\ score(tracks[1], lang) = score(tracks[2], lang)
    /\ score(tracks[1], lang) = <<1, 1, 1>>
    /\ track = Some(tracks[1])

\* no track of the list matches the target language, exactly or by prefix
NoTrackMatches(ts, lg) ==
    \A i \in DOMAIN ts : score(ts[i], lg)[1] = 0 /\ score(ts[i], lg)[2] = 0

\* C10 as claimed: when the track list is empty or holds no track matching
\* the target language, main ends with an error and download_caption is
\* never called: no request is ever sent.
C10_NoMatchAbortsBeforeFetch ==
    (prog = "lyrics" /\ (tracks = <<>> \/ NoTrackMatches(tracks, lang))) =>
        /\ requests = <<>>
        /\ pc = "done" => rc \in {"return 2", "return 3"}

(***************************************************************************)
(* download_caption: order of attempts, acceptance                         *)
(***************************************************************************)
Answered(a) == ~a.answer.raises
Accepted(a) == Answered(a) /\ Accepts(a.fmt, a.answer)
NoneAccepted == \A i \in 1..Len(attempts) : ~Accepted(attempts[i])
DownloadEnded == attempts # <<>>
DownloadFailed == rc \in {"raise RuntimeError", "raise RequestException"}

\* C11 (as stated): the "No usable caption data" error is raised if and only
\* if every format was attempted and none was accepted.
C11_FailsIffExhausted ==
    rc = "raise RuntimeError" <=> (Len(attempts) = Len(Prefer) /\ NoneAccepted)

\* C11 (amended): download_caption asks for the formats in the order given,
\* one request per format, and stops at the first accepted answer, which it
\* returns with its format; it raises "No usable caption data" if and only if
\* every format was asked for, every request was answered and none was
\* accepted; a request that raises ends the call with that error; so a call
\* ends with exactly one accepted format or with a failure.
C11_FirstAcceptedOrFailure ==
    LET n == Len(attempts)
    IN  /\ n <= Len(Prefer)
        /\ \A i \in 1..n : attempts[i].fmt = Prefer[i]
        /\ \A i \in 1..(n - 1) : Answered(attempts[i]) /\ ~Accepted(attempts[i])
        /\ fetched # None <=> (n >= 1 /\ Accepted(attempts[n]))
        /\ fetched # None =>
              Val(fetched) = [fmt |-> attempts[n].fmt, content |-> attempts[n].answer.content]
        /\ rc = "raise RuntimeError" <=>
              (n = Len(Prefer) /\ NoneAccepted /\ \A i \in 1..n : Answered(attempts[i]))
        /\ rc = "raise RequestException" <=> (n >= 1 /\ ~Answered(attempts[n]))
        /\ DownloadEnded => (fetched # None) # DownloadFailed

\* the first format is rejected and the second is accepted and returned
C11_Witness ==
    /\ Len(attempts) = 2
    /\ ~Accepted(attempts[1])
    /\ fetched # None /\ Val(fetched).fmt = Srv3

\* the JSON object of the body has the top-level key events
HasEventsKey(content) == "events" \in Range(content)

\* C12: the answer to the json3 request is accepted only with status 200, a
\* non-empty body and the top-level events key in it; a json3 answer without
\* the events key is rejected and srv3 is asked for next; the answer to the
\* srv3 request is accepted only with the "<p " marker in it.
C12_AcceptedOnlyWithMarker ==
    LET n == Len(attempts)
        Returned(i) == i = n /\ fetched # None
    IN  \A i \in 1..n :
          LET a == attempts[i]
          IN  /\ (a.fmt = Json3 /\ Returned(i)) =>
                    /\ a.answer.status = 200
                    /\ a.answer.content # <<>>
                    /\ HasEventsKey(a.answer.content)
              /\ (a.fmt = Json3 /\ Answered(a) /\ ~HasEventsKey(a.answer.content)) =>
                    /\ ~Returned(i)
                    /\ n > i /\ attempts[i + 1].fmt = Srv3
              /\ (a.fmt = Srv3 /\ Returned(i)) =>
                    /\ a.answer.status = 200
                    /\ "<p " \in Range(a.answer.content)

(***************************************************************************)
(* fetch_lyrics: the json3 payload and its parsers                         *)
(***************************************************************************)
\* a payload that is the anti-hijacking line followed by a valid JSON document
PrefixedDocument(c) ==
    /\ c # <<>> /\ Head(c) = XssiLine
    /\ json_loads(Tail(c), events) # None

\* C13: when download_caption accepts a json3 body made of the line )]}' and
\* a valid JSON document, the parsers decode the payload and give the tokens
\* of the document without the prefix.
C13_PrefixedPayloadDecodes ==
    (/\ fetched # None /\ Val(fetched).fmt = Json3
     /\ PrefixedDocument(Val(fetched).content)
     /\ pc \in {"parsed", "done"}) =>
        /\ rc # "raise JSONDecodeError"
        /\ pc = "parsed" =>
              LET evs == EventsOf(Val(json_loads(Tail(Val(fetched).content), events)))
              IN  sents = parse_json3_sentences(evs) /\ tokens = parse_json3_words(evs)

\* the json3 parsers have run on the decoded document
Json3Parsed ==
    /\ prog = "lyrics" /\ pc = "parsed"
    /\ fetched # None /\ Val(fetched).fmt = Json3

\* a parsed (seconds, text) pair's time in milliseconds
PairMs(t) == t[1][1] * 1000 + t[1][2]

\* the texts of the segments one after the other, in segment order
RECURSIVE FlatText(_)
FlatText(segs) == IF segs = <<>> THEN <<>> ELSE Head(segs).utf8 \o FlatText(Tail(segs))

\* the text sentence mode gives an event: newlines as spaces, trimmed
ResultingText(ev) == Strip(ReplaceNewlines(FlatText(ev.segs)))

HasSentence(ev) == ev.tStartMs # None /\ ev.segs # <<>> /\ ResultingText(ev) # <<>>

\* C14: parse_json3_sentences gives exactly one token for each event that has
\* a start time, at least one segment and a non-empty resulting text, in
\* event order, and none for the other events; the token's time is the
\* event's start and its text is the segment texts concatenated in segment
\* order (newlines as spaces, trimmed).
C14_OneSentencePerEvent ==
    Json3Parsed =>
        LET q == SelectSeq(events, HasSentence)
        IN  /\ Len(sents) = Len(q)
            /\ \A i \in 1..Len(q) :
                  /\ PairMs(sents[i]) = Val(q[i].tStartMs)
                  /\ sents[i][2] = ResultingText(q[i])

\* two events, one of which gives no sentence, the other one with two segments
\* whose order shows in the text
C14_Witness ==
    /\ Json3Parsed
    /\ Len(events) = 2 /\ Len(sents) = 1
    /\ \E j \in 1..2 :
          /\ HasSentence(events[j]) /\ Len(events[j].segs) = 2
          /\ sents[1][2] = <<"a", " ", "b">>

IsWordSeg(sg) ==
    LET w == Strip(sg.utf8)
    IN  w # <<>> /\ ~(w[1] = "[" /\ w[Len(w)] = "]")

IsBracketSeg(sg) ==
    LET w == Strip(sg.utf8)
    IN  w # <<>> /\ w[1] = "[" /\ w[Len(w)] = "]"

\* the (milliseconds, text) words of one event, as the claim gives them
RECURSIVE WordsFrom(_, _)
WordsFrom(t0, segs) ==
    IF segs = <<>> THEN <<>>
    ELSE LET sg == Head(segs)
             off == IF sg.tOffsetMs = None THEN 0 ELSE Val(sg.tOffsetMs)
         IN  (IF IsWordSeg(sg) THEN << <<t0 + off, Strip(sg.utf8)>> >> ELSE <<>>)
             \o WordsFrom(t0, Tail(segs))

RECURSIVE ExpectedWords(_)
ExpectedWords(evs) ==
    IF evs = <<>> THEN <<>>
    ELSE (IF Head(evs).tStartMs = None THEN <<>>
          ELSE WordsFrom(Val(Head(evs).tStartMs), Head(evs).segs))
         \o ExpectedWords(Tail(evs))

\* sub occurs in s as a run of consecutive characters
Contains(s, sub) ==
    \E i \in 0..(Len(s) - Len(sub)) : SubSeq(s, i + 1, i + Len(sub)) = sub

\* C15: parse_json3_words gives, for every event with a start time, one token
\* per segment whose trimmed text is non-empty and not bracket-delimited, at
\* the event start plus the segment offset (0 when absent), with the trimmed
\* text; a bracket-delimited segment is left out of the words only: its text
\* (newlines as spaces, as sentence mode writes them) is in the sentence of
\* its event.
C15_OneWordPerSegment ==
    Json3Parsed =>
        LET want == ExpectedWords(events)
        IN  /\ Len(tokens) = Len(want)
            /\ \A i \in 1..Len(want) :
                  PairMs(tokens[i]) = want[i][1] /\ tokens[i][2] = want[i][2]
            /\ \A j \in 1..Len(events) :
                  events[j].tStartMs # None =>
                    \A k \in 1..Len(events[j].segs) :
                      IsBracketSeg(events[j].segs[k]) =>
                        /\ \A i \in 1..Len(tokens) :
                              tokens[i][2] # Strip(events[j].segs[k].utf8)
                        /\ \E i \in 1..Len(sents) :
                              /\ PairMs(sents[i]) = Val(events[j].tStartMs)
                              /\ Contains(sents[i][2],
                                          ReplaceNewlines(Strip(events[j].segs[k].utf8)))

\* an event with a bracketed segment and a word at an offset, and a word
\* without offset in another event
C15_Witness ==
    /\ Json3Parsed
    /\ Len(tokens) = 2
    /\ \E j \in 1..Len(events) :
          /\ events[j].tStartMs = Some(1000)
          /\ Len(events[j].segs) = 2
          /\ IsBracketSeg(events[j].segs[1])
          /\ IsWordSeg(events[j].segs[2])
          /\ \E i \in 1..2 : PairMs(tokens[i]) = 1300
    /\ \E i \in 1..2 : PairMs(tokens[i]) = 0

(***************************************************************************)
(* XML sentence mode, both parsers                                         *)
(***************************************************************************)
\* the trimmed texts of the <s> children one after the other, no separator
RECURSIVE TrimmedJoin(_)
TrimmedJoin(segs) ==
    IF segs = <<>> THEN <<>> ELSE Strip(Head(segs).text) \o TrimmedJoin(Tail(segs))

\* the sentence text the claim gives paragraph p
SentenceText(p) == IF p.segs = <<>> THEN Strip(p.text) ELSE TrimmedJoin(p.segs)

SentencesParsed == prog = "sentences" /\ pc # "start"
LyricsSrv3Parsed ==
    /\ prog = "lyrics" /\ pc = "parsed"
    /\ fetched # None /\ Val(fetched).fmt = Srv3

\* fetch_srv3_sentences.parse_srv3_sentences gives every paragraph with a
\* start time and a non-empty sentence text a token with that text
SentencesCarryText ==
    SentencesParsed =>
        \A j \in 1..Len(payload) :
            (payload[j].t # None /\ SentenceText(payload[j]) # <<>>) =>
                \E i \in 1..Len(tokens) :
                    tokens[i] = <<Val(payload[j].t), SentenceText(payload[j])>>

\* the same of fetch_lyrics.parse_srv3_sentences
LyricsSentencesCarryText ==
    LyricsSrv3Parsed =>
        \A j \in 1..Len(payload) :
            (payload[j].t # None /\ SentenceText(payload[j]) # <<>>) =>
                \E i \in 1..Len(sents) :
                    /\ PairMs(sents[i]) = Val(payload[j].t)
                    /\ sents[i][2] = SentenceText(payload[j])

\* C16: in XML sentence mode a paragraph with a start time, no <s> child and
\* non-empty own text gives one token with its own trimmed text, and a
\* paragraph with <s> children gives their trimmed texts concatenated in
\* order, in both parsers (fetch_srv3_sentences and fetch_lyrics).
C16_XmlSentenceText == SentencesCarryText /\ LyricsSentencesCarryText

(***************************************************************************)
(* No empty text, no item without a start time                             *)
(***************************************************************************)
HasStart(p) == p.t # None
EventHasStart(ev) == ev.tStartMs # None

\* the parser of the running script has just returned
ParserReturned == pc = "parsed"

\* C17: every cue and token a parser returns has a non-empty text after
\* trimming, and a paragraph or event without a start time contributes
\* nothing: the result is the one of the document without these items.
C17_NoEmptyTextNoStartless ==
    /\ \A i \in 1..Len(cues) : Strip(cues[i][3]) # <<>>
    /\ \A i \in 1..Len(tokens) : Strip(tokens[i][2]) # <<>>
    /\ \A i \in 1..Len(sents) : Strip(sents[i][2]) # <<>>
    /\ ParserReturned =>
          LET doc == SelectSeq(payload, HasStart)
              evs == SelectSeq(events, EventHasStart)
          IN  CASE prog = "convert" -> cues = parse_srv3_to_word_cues(doc)
                [] prog = "words" -> tokens = parse_srv3_words(doc)
                [] prog = "sentences" -> tokens = parse_srv3_sentences(doc)
                [] prog = "lyrics" ->
                     IF Val(fetched).fmt = Json3
                     THEN /\ sents = parse_json3_sentences(evs)
                          /\ tokens = parse_json3_words(evs)
                     ELSE /\ sents = lyrics_parse_srv3_sentences(doc)
                          /\ tokens = lyrics_parse_srv3_words(doc)

\* an event without a start time whose first segment is a word, which gives
\* nothing, next to an event starting at 0, which gives its sentence and word
C17_Witness ==
    /\ Json3Parsed
    /\ \E j \in 1..Len(events) :
          events[j].tStartMs = None /\ events[j].segs # <<>> /\ IsWordSeg(events[j].segs[1])
    /\ \E j \in 1..Len(events) :
          events[j].tStartMs = Some(0) /\ HasSentence(events[j])
    /\ Len(sents) = 1 /\ Len(tokens) = 1

(***************************************************************************)
(* fetch_lyrics.main: both files or none                                   *)
(***************************************************************************)
\* the accepted payload is a well-formed text of its format
Decodable(f) ==
    IF f.fmt = Json3
    THEN LET IsToken(c) == c \notin {" ", "\t", "\n", "\r"}
         IN  SelectSeq(f.content, IsToken) \in
                 {<<"{", "}">>, <<"{", "events", "}">>, <<"{", "error", "}">>,
                  <<"{", NoEventsError, "}">>}
    ELSE xml_fromstring(f.content, payload) # None

BothFiles == {"sentences", "words"}

\* C18: in fetch_lyrics.main, when the fetch fails or a parser cannot decode
\* the accepted payload the run ends with that error and no file is written;
\* a file is written only after both parsers returned, the sentence file
\* before the word file, and a run that returns 0 has written both.
C18_NoFileUnlessBothParsed ==
    /\ "words" \in files => "sentences" \in files
    /\ files = {} => lines = <<>> /\ sentLines = <<>>
    /\ files # {} =>
          /\ fetched # None /\ Decodable(Val(fetched))
          /\ pc \in {"sentences written", "done"}
          /\ rc \in {"none", "return 0", "raise UnicodeEncodeError"}
          /\ sentLines = write_pairs(sents)
    /\ rc = "return 0" =>
          /\ files = BothFiles
          /\ sentLines = write_pairs(sents) /\ lines = write_pairs(tokens)
    /\ (pc = "done" /\ fetched = None) =>
          /\ files = {}
          /\ rc \in {"return 2", "return 3", "raise RuntimeError", "raise RequestException"}
    /\ (pc = "done" /\ fetched # None /\ ~Decodable(Val(fetched))) =>
          /\ files = {}
          /\ rc \in {"raise JSONDecodeError", "raise ParseError"}
    /\ (pc = "done" /\ fetched # None /\ Decodable(Val(fetched))) =>
          \/ rc = "return 0"
          \/ rc = "raise UnicodeEncodeError" /\ files # {}

\* an accepted srv3 payload that is cut short: the run ends with the parse
\* error and without files
C18_Witness ==
    /\ pc = "done"
    /\ fetched # None /\ Val(fetched).fmt = Srv3
    /\ rc = "raise ParseError"
    /\ files = {}

(***************************************************************************)
(* ms_to_srt_timestamp                                                     *)
(***************************************************************************)
AllDigits(ds) == \A i \in 1..Len(ds) : \E d \in 0..9 : Digits[d + 1] = ds[i]

\* the text has the shape H..H:MM:SS,mmm: digits only, two colons, one comma
WellShaped(ts) ==
    /\ Cardinality({i \in 1..Len(ts) : ts[i] = ":"}) = 2
    /\ Cardinality({i \in 1..Len(ts) : ts[i] = ","}) = 1
    /\ LET f == TimestampFields(ts)
       IN  /\ \A n \in 1..4 : AllDigits(f[n])
           /\ Len(f[1]) >= 2 /\ Len(f[2]) = 2 /\ Len(f[3]) = 2 /\ Len(f[4]) = 3
           /\ ts = f[1] \o <<":">> \o f[2] \o <<":">> \o f[3] \o <<",">> \o f[4]

\* <<hours, minutes, seconds, milliseconds>> written by the text
FieldNumbers(ts) ==
    LET f == TimestampFields(ts) IN [n \in 1..4 |-> NumberOf(f[n])]

\* time a is earlier than time b, field by field
Earlier(a, b) ==
    \E n \in 1..4 : a[n] < b[n] /\ \A j \in 1..(n - 1) : a[j] = b[j]

\* C19: ms_to_srt_timestamp writes a non-negative m as HH:MM:SS,mmm, zero
\* padded (3 digits of milliseconds, 2 of minutes and seconds, at least 2 of
\* hours), minutes and seconds in 0..59, milliseconds in 0..999, and
\* hours*3600000 + minutes*60000 + seconds*1000 + milliseconds = m; a smaller
\* value is written differently, as an earlier time.
C19_TimestampExact ==
    pc = "stamped" =>
        /\ WellShaped(stamp)
        /\ LET n == FieldNumbers(stamp)
           IN  /\ n[2] \in 0..59 /\ n[3] \in 0..59 /\ n[4] \in 0..999
               /\ n[1] * 3600000 + n[2] * 60000 + n[3] * 1000 + n[4] = arg
        /\ \A b \in StampInputs :
              b < arg =>
                /\ ms_to_srt_timestamp(b) # stamp
                /\ Earlier(FieldNumbers(ms_to_srt_timestamp(b)), FieldNumbers(stamp))

\* 100 hours: the hour field takes three digits, the others are padded
C19_Witness ==
    /\ pc = "stamped"
    /\ arg = 360000000
    /\ stamp = <<"1", "0", "0", ":", "0", "0", ":", "0", "0", ",", "0", "0", "0">>

(***************************************************************************)
(* The temporary directory of fetch_srv3_words / fetch_srv3_sentences      *)
(***************************************************************************)
\* the lines the running script writes from its parsed list
WrittenFrom(ts) ==
    IF prog = "words" THEN write_wordlist(ts) ELSE write_sentences_seconds(ts)

\* C20: in fetch_srv3_words.main and fetch_srv3_sentences.main the temporary
\* directory is gone once main has ended, whether the download raised, the
\* parse raised or both succeeded; the srv3 file is parsed while the
\* directory exists; the output file is written after the removal, from the
\* list parsed before it.
C20_TmpDirRemoved ==
    [][/\ pc' = "done" => tmp'.dir = "removed"
       /\ (pc = "start" /\ pc' = "parsed") =>
             tmp.dir = "exists" /\ tmp.file = "xml" /\ tmp'.dir = "exists"
       /\ files' # files =>
             /\ tmp.dir = "removed" /\ tmp'.dir = "removed"
             /\ pc = "cleaned"
             /\ tokens' = tokens /\ lines' = WrittenFrom(tokens)]_vars

\* the successful run: parsed words written, the directory removed
C20_Witness ==
    /\ prog = "words" /\ pc = "done"
    /\ rc = "return"
    /\ tokens # <<>> /\ files = {"words"}
    /\ tmp.dir = "removed"

\* the value of the fmt parameter of a URL: the chunk after its first "fmt="
FormatSelector(url) ==
    LET at == {i \in 1..(Len(url) - 1) : url[i] = "fmt="}
    IN  IF at = {} THEN None
        ELSE Some(url[(CHOOSE i \in at : \A j \in at : i <= j) + 1])

\* C21: every URL requested by download_caption carries the attempted format
\* as its fmt parameter, whether the base URL had no fmt parameter or already
\* had one, so two attempts never ask for the same format.
C21_UrlCarriesAttemptedFormat ==
    /\ \A i \in 1..Len(attempts) :
          FormatSelector(attempts[i].url) = Some(attempts[i].fmt)
    /\ \A i, j \in 1..Len(attempts) :
          i # j => FormatSelector(attempts[i].url) # FormatSelector(attempts[j].url)

\* the request of attempt i raised (timeout, connection error)
Raised(i) == attempts[i].answer.raises

\* C22: a request of download_caption that raises ends the run with that
\* exception: it is the last request made (no retry of it, no later format),
\* nothing was accepted, and fetch_lyrics.main parses nothing and writes no
\* file.
C22_TransportErrorIsFatal ==
    \A i \in 1..Len(attempts) :
        Raised(i) =>
            /\ i = Len(attempts)
            /\ \A j \in 1..Len(attempts) : attempts[j].fmt = attempts[i].fmt => j = i
            /\ rc = "raise RequestException" /\ pc = "done"
            /\ fetched = None
            /\ sents = <<>> /\ tokens = <<>>
            /\ files = {}

\* the first request (json3) timed out while srv3 was still to be tried
C22_Witness ==
    /\ prog = "lyrics" /\ pc = "done"
    /\ Len(attempts) = 1 /\ Raised(1)
    /\ attempts[1].fmt = Json3
    /\ Len(Prefer) > 1
    /\ rc = "raise RequestException"
    /\ files = {}

(***************************************************************************)
(* run.py                                                                  *)
(***************************************************************************)
\* child i has ended with exit code c
ExitedWith(i, c) == procs[i].returncode = Some(c)

\* child i has ended with some exit code other than 0
ExitedNonZero(i) == \E c \in 1..MaxExitCode : ExitedWith(i, c)

AllStepsExitedZero ==
    Len(procs) = Len(Steps) /\ \A i \in 1..Len(procs) : ExitedWith(i, 0)

\* C23: run.py starts the audio, word and sentence scripts in that order,
\* one at a time; every script before the last started one has exited with
\* code 0; a script that exits non-zero is the last one started and the run
\* ends with that same exit code; a script's file is there only once that
\* script was started, and is there when it exited with code 0; manifest.json
\* is written only after three exits with code 0, and a run that has ended
\* has written it exactly then.
C23_SequentialSteps ==
    /\ Len(procs) <= Len(Steps)
    /\ \A i \in 1..Len(procs) : procs[i].script = Steps[i]
    /\ \A i \in 1..(Len(procs) - 1) : ExitedWith(i, 0)
    /\ \A i \in 1..Len(procs) :
          IsNone(procs[i].returncode) => i = Len(procs) /\ pc = "wait"
    /\ \A i \in 1..Len(procs) : \A c \in 1..MaxExitCode :
          ExitedWith(i, c) =>
              /\ i = Len(procs)
              /\ pc \in {"check", "done"}
              /\ pc = "done" => rc = "raise SystemExit" /\ exit_status = Some(c)
    /\ \A i \in 1..Len(Steps) : StepOutputs[i] \in files => i <= Len(procs)
    /\ \A i \in 1..Len(procs) : ExitedWith(i, 0) => StepOutputs[i] \in files
    /\ "manifest.json" \in files => AllStepsExitedZero
    /\ pc = "done" => ("manifest.json" \in files <=> AllStepsExitedZero)

\* the word script exited with code 2 after the audio script exited with 0:
\* the run ended with 2, without the sentence script and without manifest;
\* only the audio file was written
C23_Witness ==
    /\ prog = "run" /\ pc = "done"
    /\ Len(procs) = 2
    /\ ExitedWith(1, 0) /\ ExitedWith(2, 2)
    /\ exit_status = Some(2)
    /\ files = {"audio/song.mp3"}

(***************************************************************************)
(* From the segments of a paragraph to the blocks of the file              *)
(***************************************************************************)
\* the end the converter gives remaining segment i of the paragraph
SegEnd(i) ==
    LET n == Len(Remaining)
        plain == IF i < n THEN AbsStart(i + 1)
                 ELSE IF ~IsNone(TheP.d) THEN Val(TheP.t) + Val(TheP.d)
                 ELSE AbsStart(i) + 250
    IN  IF Remaining[i][2] # Marker THEN plain ELSE Max(plain, AbsStart(i) + 500)

\* remaining segment i ends after it starts
Lasting(i) == SegEnd(i) > AbsStart(i)

\* the blocks of the file that show the text w from the time s on
BlocksOf(s, w) ==
    {k \in DOMAIN srt : TimestampMs(srt[k].start) = s /\ srt[k].text = w}

\* the remaining segments with the text w that start at the time s
SegmentsOf(s, w) ==
    {i \in DOMAIN Remaining : AbsStart(i) = s /\ Remaining[i][2] = w}

\* C24 as claimed: every segment with non-empty trimmed text of a paragraph
\* with a start time is exactly one block of the written file, whatever the
\* offsets and the duration.
C24_NoWordLost ==
    (pc = "done" /\ Segmented) =>
        /\ Len(srt) = Len(Remaining)
        /\ \A i \in DOMAIN Remaining :
              Cardinality(BlocksOf(AbsStart(i), Remaining[i][2])) =
                  Cardinality(SegmentsOf(AbsStart(i), Remaining[i][2]))

\* C24 amended: a segment with non-empty trimmed text is exactly one block
\* of the written file when its reconstructed end is after its start, and
\* no block at all when the end is at or before the start (the next
\* remaining segment has an equal or smaller offset, or the duration does
\* not exceed the last offset); no other block is written.
C24_NoLastingWordLost ==
    (pc = "done" /\ Segmented) =>
        /\ Len(srt) = Cardinality({i \in DOMAIN Remaining : Lasting(i)})
        /\ \A i \in DOMAIN Remaining :
              Cardinality(BlocksOf(AbsStart(i), Remaining[i][2])) =
                  Cardinality({j \in SegmentsOf(AbsStart(i), Remaining[i][2]) : Lasting(j)})

\* C24 witness: two words at the same offset; the first ends where it starts
\* and is not in the file, the second is
C24_Witness ==
    /\ pc = "done" /\ Segmented
    /\ Len(Remaining) = 2
    /\ Remaining[1][1] = Remaining[2][1]
    /\ Remaining[1][2] = <<"a">> /\ Remaining[2][2] = <<"b">>
    /\ ~Lasting(1) /\ Lasting(2)
    /\ Len(srt) = 1 /\ srt[1].text = <<"b">>

\* block k of the file as <<startMs, endMs, text>>
Block(k) == WrittenCues(srt)[k]

\* the remaining segments of the paragraph have strictly increasing offsets
OffsetsIncrease ==
    \A i \in 1..(Len(Remaining) - 1) : Remaining[i][1] < Remaining[i + 1][1]

\* C25 as claimed: of two consecutive blocks of the file the earlier ends
\* at or before the start of the later, for any document.
C25_BlocksNeverOverlap ==
    pc = "done" =>
        \A k \in 1..(Len(srt) - 1) : Block(k)[2] <= Block(k + 1)[1]

\* C25 amended: of two consecutive blocks of the file the later never starts
\* before the earlier; when the document is one paragraph whose remaining
\* segments have strictly increasing offsets, the earlier block ends at the
\* start of the later, unless it is the interlude marker, which ends at the
\* later of that start and its own start + 500 ms.
C25_BlocksOrderedAndAbutInParagraph ==
    pc = "done" =>
        /\ \A k \in 1..(Len(srt) - 1) : Block(k)[1] <= Block(k + 1)[1]
        /\ (Len(payload) = 1 /\ Segmented /\ OffsetsIncrease) =>
              \A k \in 1..(Len(srt) - 1) :
                  Block(k)[2] = IF Block(k)[3] # Marker THEN Block(k + 1)[1]
                                ELSE Max(Block(k + 1)[1], Block(k)[1] + 500)

\* C25 witness: one paragraph, the marker at 0 and a word 200 ms later: the
\* marker's block lasts 500 ms and the word's block starts inside it
C25_Witness ==
    /\ pc = "done"
    /\ Len(payload) = 1 /\ Segmented /\ OffsetsIncrease
    /\ Len(srt) = 2
    /\ Block(1)[3] = Marker /\ Block(1)[2] = Block(1)[1] + 500
    /\ Block(2)[1] = Block(1)[1] + 200

(***************************************************************************)
(* The three word extractors on one srv3 document                          *)
(***************************************************************************)
Count(s, x) == Cardinality({i \in DOMAIN s : s[i] = x})

SameMultiset(a, b) ==
    /\ Len(a) = Len(b)
    /\ \A x \in Range(a) : Count(a, x) = Count(b, x)

\* the words of fetch_lyrics.parse_srv3_words as <<start in ms, text>>
LyricsWordTokens(doc) ==
    LET ws == lyrics_parse_srv3_words(doc)
    IN  [i \in DOMAIN ws |-> <<PairMs(ws[i]), ws[i][2]>>]

\* the cues of the converter for the paragraphs with <s> children, as
\* <<start in ms, text>>
ConverterWordTokens(doc) ==
    LET cs == parse_srv3_to_word_cues(SelectSeq(doc, LAMBDA p : p.segs # <<>>))
    IN  [i \in DOMAIN cs |-> <<cs[i][1], cs[i][3]>>]

\* C26: on one srv3 document, the words parsed by fetch_srv3_words, the words
\* of fetch_lyrics.parse_srv3_words and the (start, text) pairs of the
\* converter's cues for the paragraphs with child segments are the same
\* multiset.
C26_WordExtractorsAgree ==
    (prog = "words" /\ pc = "parsed") =>
        /\ SameMultiset(tokens, ConverterWordTokens(payload))
        /\ SameMultiset(tokens, LyricsWordTokens(payload))

====
